---- MODULE Spec2Model ----
(***************************************************************************)
(* Model of the trading bot's two core subsystems:                         *)
(*   - SignalQueue (src/app/signal_queue.py): the per-key dispatcher with  *)
(*     a waiting slot, a processing slot and a thread pool;                *)
(*   - BrokerService.ensure_position (src/app/brokers/__init__.py): the    *)
(*     position reconciliation against a broker.                           *)
(* Each `with self._lock:` block of the queue is one atomic action; the    *)
(* code between two blocks is a separate step, so that other threads can   *)
(* interleave exactly where the mutex is not held.                         *)
(***************************************************************************)
EXTENDS Integers, Sequences, FiniteSets, TLC

\* ---------------------------------------------------------------- bounds
\* Number of enqueue_signal calls explored by Spec.
MaxSignals == 4
\* Number of (account, instrument) keys explored by Spec.
NumKeys == 2
\* SpecPool: reconciliations of the first FastKeys keys return within the
\* horizon, the others run long.
FastKeys == 1

\* ThreadPoolExecutor(max_workers=10)
max_workers == 10

\* Python's None (dict.get of a missing key, an Optional argument left out);
\* it differs from every signal number, quantity and price, 0.0 included.
None == -1

Keys == 1..NumKeys
\* SpecPool uses one key more than the pool has workers.
PoolKeys == 1..(max_workers + 1)

\* How one process_signal call can end, as _process_queued_signal sees it
\* (signal_service.py:73-91, signal_queue.py:126-149, telegram_service.py:
\* 16-43):
\*   "orders"             returned, ensure_orders non-empty, success report
\*                        formatted and delivered
\*   "orders_unsent"      the same, but send_message failed: it logs and
\*                        returns False
\*   "orders_unformatted" ensure_orders non-empty, format_signal_result
\*                        raised: process_signal raises, the error is caught
\*                        by _process_queued_signal and reported
\*   "no_orders"          returned, ensure_orders empty: nothing sent
\*   "error"              the reconciliation raised: caught, error report
\*                        delivered
\*   "error_unsent"       the same, but sending the error report failed
Outcomes ==
    {"orders", "orders_unsent", "orders_unformatted", "no_orders", "error",
     "error_unsent"}
\* ensure_position returned orders / the reconciliation raised /
\* process_signal raised / a report was passed to send_message and lost.
IssuedOrders(o) == o \in {"orders", "orders_unsent", "orders_unformatted"}
Failed(o) == o \in {"error", "error_unsent"}
Raised(o) == o \in {"orders_unformatted", "error", "error_unsent"}
Unsent(o) == o \in {"orders_unsent", "error_unsent"}


\* Number of ensure_position calls explored by SpecEnsure.
MaxRuns == 1
\* Largest position size, sizing result and stop order quantity, in lots.
MaxQty == 2
\* Number of stop orders the broker holds before the first call.
MaxInitStops == 2
\* Sizing: largest balance (and debt), reserve, price, lot size and margin
\* per lot.
MaxMoney == 4
MaxReserve == 1
MaxPrice == 2
MaxLotSize == 2
MaxMargin == 2
\* Sizing: the leverage percentages tried.
Leverages == {50, 100, 200}
\* Settlement wait: largest max_attempts tried.
MaxAttempts == 3
\* Stop check: longest list of stop orders tried.
MaxCheckedStops == 3

VARIABLES
    waiting,      \* SignalQueue._waiting: key -> signal or None
    processing,   \* SignalQueue._processing: key -> signal or None
    tasks,        \* work items given to the executor, in submission order:
                  \* [key, pc, sig]; pc is the position of the worker in
                  \* _process_waiting_signal_key
    executor,     \* SignalQueue._executor: [shutdown, joined, accepted]:
                  \* shutdown() was called / has returned, and the number
                  \* of enqueue_signal calls made before it was called
    hist,         \* per signal (signal s = the s-th enqueue_signal call):
                  \* [key, runs, ends, ok, err, replaced, late, during, open]
    brokerQty,    \* broker: position of the instrument in lots (0: absent)
    brokerStops,  \* broker: active stop orders of the instrument (StopOrder)
    nextId,       \* broker: next order id
    ens,          \* locals of the running ensure_position call and its pc
    nrun,         \* number of ensure_position calls made
    calc          \* one call of a function or adapter method that is
                  \* studied on its own: its arguments, position and result

qvars == <<waiting, processing, tasks, hist, executor>>
cvars == <<calc>>
evars == <<brokerQty, brokerStops, nextId, ens, nrun>>

\* ------------------------------------------------------- derived notions
Signals == DOMAIN hist
Tasks == DOMAIN tasks

\* The worker of task i is inside process_signal (line 104 / 130).
Processing(i) == tasks[i].pc = "process"

\* The tasks reconciling a signal of key k right now.
Reconciling(k) == {i \in Tasks : Processing(i) /\ tasks[i].key = k}

\* The most recently enqueued signal of key k (None: none yet).
SignalsOf(k) == {s \in Signals : hist[s].key = k}
Latest(k) ==
    IF SignalsOf(k) = {} THEN None
    ELSE CHOOSE s \in SignalsOf(k) : \A s2 \in SignalsOf(k) : s2 <= s

\* Signal s is being reconciled right now.
InFlight(s) == \E i \in Tasks : Processing(i) /\ tasks[i].sig = s

InFlightOn(k) == {s \in Signals : hist[s].key = k /\ InFlight(s)}

\* Tasks that occupy a pool thread.
Running == {i \in Tasks : tasks[i].pc \in {"process", "release", "promote"}}

\* Work items still in the executor's queue, and those queued before item i.
Queued == {i \in Tasks : tasks[i].pc = "queued"}
QueuedUpTo(i) == {j \in Queued : j <= i}

\* A queued work item is picked up when a pool thread is free for it and
\* for every item queued before it (the work queue is FIFO, the threads
\* then race for the mutex).
CanStart_serial(i) == Running = {} /\ QueuedUpTo(i) = {i}
\* Mutant: a pool without a cap on its threads.
CanStart_nocap(i) == i \in Queued
CanStart(i) == Cardinality(Running) + Cardinality(QueuedUpTo(i)) <= max_workers

\* --------------------------------------------------------------- actions
\* SignalQueue.__init__
QInit(keys) ==
    /\ waiting = [k \in keys |-> None]
    /\ processing = [k \in keys |-> None]
    /\ tasks = <<>>
    /\ hist = <<>>
    /\ executor = [shutdown |-> FALSE, joined |-> FALSE, accepted |-> 0]

\* History kept per signal: runs / ends count the process_signal calls begun
\* and ended, ok / err the success and error reports passed to
\* send_message, unsent those of them send_message could not deliver, issued
\* the runs whose reconciliation issued an order, failed the runs whose
\* reconciliation raised, raised the runs in which process_signal raised,
\* replaced says it
\* was overwritten in waiting, late that it started after a later signal of
\* its key; during / open are the signals of its key that were in flight /
\* had not finished a reconciliation when it was enqueued.
NewSignal(k) ==
    [key |-> k, runs |-> 0, ends |-> 0, ok |-> 0, err |-> 0,
     issued |-> 0, failed |-> 0, raised |-> 0, unsent |-> 0,
     replaced |-> FALSE, late |-> FALSE, during |-> InFlightOn(k),
     open |-> {s \in Signals : hist[s].key = k /\ hist[s].ends = 0}]

MarkReplaced(h, s) ==
    IF s = None THEN h ELSE [h EXCEPT ![s].replaced = TRUE]

\* Mutant: a new signal does not replace a waiting one.
enqueue_signal_keep(k) ==
    LET s == Len(hist) + 1 IN
    /\ waiting' = IF waiting[k] = None THEN [waiting EXCEPT ![k] = s] ELSE waiting
    /\ hist' = Append(MarkReplaced(hist, waiting[k]), NewSignal(k))
    /\ tasks' = IF processing[k] = None /\ ~executor.shutdown
                THEN Append(tasks, [key |-> k, pc |-> "queued", sig |-> None])
                ELSE tasks
    /\ UNCHANGED <<processing, executor, brokerQty, brokerStops, nextId, ens,
                   nrun, calc>>

\* SignalQueue.enqueue_signal: the locked block (lines 68-88) and the
\* submit that follows it (lines 91-92). Once the executor is shut down,
\* submit raises RuntimeError: no work item is queued and the exception
\* leaves enqueue_signal, after waiting[key] was set.
enqueue_signal(k) ==
    LET s == Len(hist) + 1 IN
    /\ waiting' = [waiting EXCEPT ![k] = s]
    /\ hist' = Append(MarkReplaced(hist, waiting[k]), NewSignal(k))
    /\ tasks' = IF processing[k] = None /\ ~executor.shutdown
                THEN Append(tasks, [key |-> k, pc |-> "queued", sig |-> None])
                ELSE tasks
    /\ UNCHANGED <<processing, executor, brokerQty, brokerStops, nextId, ens,
                   nrun, calc>>

\* Mutant: a first locked block that leaves the signal in waiting[key].
PromoteLocked_nodel(i) ==
    LET k == tasks[i].key
        s == waiting[k] IN
    IF s = None
    THEN /\ tasks' = [tasks EXCEPT ![i].pc = "crashed_promote"]
         /\ UNCHANGED <<waiting, processing, hist>>
    ELSE /\ UNCHANGED waiting
         /\ processing' = [processing EXCEPT ![k] = s]
         /\ tasks' = [tasks EXCEPT ![i].pc = "process", ![i].sig = s]
         /\ hist' = [hist EXCEPT
              ![s].runs = IF @ < 2 THEN @ + 1 ELSE @,
              ![s].late = \E s2 \in Signals :
                  s2 > s /\ hist[s2].key = k /\ hist[s2].runs > 0]

\* _process_waiting_signal_key, first locked block (lines 98-102), entered
\* by a pool thread that picked the work item up or by the tail call of
\* line 118. A missing waiting[key] raises KeyError and ends the task.
\* The step ends with the worker inside process_signal.
PromoteLocked(i) ==
    LET k == tasks[i].key
        s == waiting[k] IN
    IF s = None
    THEN /\ tasks' = [tasks EXCEPT ![i].pc = "crashed_promote"]
         /\ UNCHANGED <<waiting, processing, hist>>
    ELSE /\ waiting' = [waiting EXCEPT ![k] = None]
         /\ processing' = [processing EXCEPT ![k] = s]
         /\ tasks' = [tasks EXCEPT ![i].pc = "process", ![i].sig = s]
         /\ hist' = [hist EXCEPT
              ![s].runs = @ + 1,
              ![s].late = \E s2 \in Signals :
                  s2 > s /\ hist[s2].key = k /\ hist[s2].runs > 0]

Promote(i) ==
    /\ \/ tasks[i].pc = "queued" /\ CanStart(i)
       \/ tasks[i].pc = "promote"
    /\ PromoteLocked(i)
    /\ UNCHANGED executor
    /\ UNCHANGED <<evars, cvars>>

\* Mutant: the success report is sent before it is known whether
\* process_signal raises.
ProcessSignal_early(i, o) ==
    LET s == tasks[i].sig IN
    /\ tasks[i].pc = "process"
    /\ tasks' = [tasks EXCEPT ![i].pc = "release"]
    /\ hist' = [hist EXCEPT
         ![s].ends = @ + 1,
         ![s].ok = @ + (IF IssuedOrders(o) THEN 1 ELSE 0),
         ![s].err = @ + (IF Raised(o) THEN 1 ELSE 0),
         ![s].issued = @ + (IF IssuedOrders(o) THEN 1 ELSE 0),
         ![s].failed = @ + (IF Failed(o) THEN 1 ELSE 0),
         ![s].raised = @ + (IF Raised(o) THEN 1 ELSE 0),
         ![s].unsent = @ + (IF Unsent(o) THEN 1 ELSE 0)]
    /\ UNCHANGED <<waiting, processing, executor>>
    /\ UNCHANGED <<evars, cvars>>

\* _process_queued_signal (lines 120-155): process_signal returns or
\* raises; every exception is caught and reported once.
ProcessSignal(i, o) ==
    LET s == tasks[i].sig IN
    /\ tasks[i].pc = "process"
    /\ tasks' = [tasks EXCEPT ![i].pc = "release"]
    /\ hist' = [hist EXCEPT
         ![s].ends = @ + 1,
         ![s].ok = @ + (IF o \in {"orders", "orders_unsent"} THEN 1 ELSE 0),
         ![s].err = @ + (IF Raised(o) THEN 1 ELSE 0),
         ![s].issued = @ + (IF IssuedOrders(o) THEN 1 ELSE 0),
         ![s].failed = @ + (IF Failed(o) THEN 1 ELSE 0),
         ![s].raised = @ + (IF Raised(o) THEN 1 ELSE 0),
         ![s].unsent = @ + (IF Unsent(o) THEN 1 ELSE 0)]
    /\ UNCHANGED <<waiting, processing, executor>>
    /\ UNCHANGED <<evars, cvars>>

\* Mutant: a second locked block that never looks at waiting[key].
ReleaseLocked_nocheck(i) ==
    LET k == tasks[i].key IN
    IF processing[k] = None
    THEN /\ tasks' = [tasks EXCEPT ![i].pc = "crashed_release"]
         /\ UNCHANGED processing
    ELSE /\ processing' = [processing EXCEPT ![k] = None]
         /\ tasks' = [tasks EXCEPT ![i].pc = "done"]

\* _process_waiting_signal_key, second locked block (lines 107-115) and the
\* decision of lines 117-118. A missing processing[key] raises KeyError.
ReleaseLocked(i) ==
    LET k == tasks[i].key IN
    IF processing[k] = None
    THEN /\ tasks' = [tasks EXCEPT ![i].pc = "crashed_release"]
         /\ UNCHANGED processing
    ELSE /\ processing' = [processing EXCEPT ![k] = None]
         /\ tasks' = [tasks EXCEPT ![i].pc =
                IF waiting[k] # None THEN "promote" ELSE "done"]

Release(i) ==
    /\ tasks[i].pc = "release"
    /\ ReleaseLocked(i)
    /\ UNCHANGED <<waiting, hist, executor>>
    /\ UNCHANGED <<evars, cvars>>

\* stop_processing (lines 187-189), registered with atexit (routes.py:58):
\* self._executor.shutdown(wait=True) begins. The executor refuses new
\* work items from now on; items already queued are still run.
StopProcessing ==
    /\ ~executor.shutdown
    /\ executor' = [executor EXCEPT !.shutdown = TRUE,
                                    !.accepted = Len(hist)]
    /\ UNCHANGED <<waiting, processing, tasks, hist>>
    /\ UNCHANGED <<evars, cvars>>

\* shutdown(wait=True) returns: every pool thread has been joined, that
\* is, no work item is queued and no worker is running.
ShutdownReturns ==
    /\ executor.shutdown
    /\ ~executor.joined
    /\ Queued = {} /\ Running = {}
    /\ executor' = [executor EXCEPT !.joined = TRUE]
    /\ UNCHANGED <<waiting, processing, tasks, hist>>
    /\ UNCHANGED <<evars, cvars>>

\* ------------------------------------------------ broker and reconciler
Positions == {"long", "short", "flat"}
\* A float price is a whole number of ticks; the broker keeps prices as
\* Quotation(units, nano), and a float resolves TicksPerNano ticks within
\* one nano (100.3 is stored by Python as 100.2999999999999971...).
TicksPerNano == 2
\* place_stop_loss_order / place_take_profit_order (tinvest.py:240, 259):
\* Quotation(units=int(p), nano=int((p - int(p)) * 1e9)), in nanos; int()
\* truncates.
Quotation(price) == price \div TicksPerNano
\* get_current_stop_orders (tinvest.py:291):
\* float(stop_price.units + stop_price.nano / 1e9)
QuotationToFloat(q) == q * TicksPerNano
\* stop_price / take_price of a call: left out, 0.0, a price the broker
\* stores exactly, and one it does not
ReqPrices == {None, 0, QuotationToFloat(1), QuotationToFloat(1) + 1}
\* trigger prices of the stop orders the broker holds at the start
StopPrices == {QuotationToFloat(1), QuotationToFloat(2)}
\* results of calculate_position_size (min of two limits, no lower clamp)
SizeResults == (-1)..MaxQty

\* StopOrder without its id
StopKinds ==
    [order_type : {"stop_loss", "take_profit"}, direction : {"buy", "sell"},
     quantity : 1..MaxQty, stop_price : StopPrices]

StopOrder(id, kind) ==
    [order_id |-> id, order_type |-> kind.order_type, direction |-> kind.direction,
     quantity |-> kind.quantity, stop_price |-> kind.stop_price]

\* abs()
Abs(x) == IF x < 0 THEN -x ELSE x

\* Python truth value of an Optional[float]: None and 0.0 are false.
Truthy(p) == p # None /\ p # 0

\* The list an adapter returns for a set of active orders (oldest first).
RECURSIVE AsList(_)
AsList(S) ==
    IF S = {} THEN <<>>
    ELSE LET m == CHOOSE x \in S : \A y \in S : x.order_id <= y.order_id
         IN <<m>> \o AsList(S \ {m})

\* Mutant: the loop without the early return; the last price of a kind
\* wins.
RECURSIVE ScanStops_last(_, _, _)
ScanStops_last(stop_orders, current_stop_price, current_take_price) ==
    IF stop_orders = <<>>
    THEN [dup |-> FALSE, sl |-> current_stop_price, tp |-> current_take_price]
    ELSE LET o == Head(stop_orders) IN
         IF o.order_type = "stop_loss"
         THEN ScanStops_last(Tail(stop_orders), o.stop_price, current_take_price)
         ELSE ScanStops_last(Tail(stop_orders), current_stop_price, o.stop_price)

\* The loop of _should_update_stop_orders (lines 121-133): dup is the early
\* `return True`, sl / tp are current_stop_price / current_take_price.
RECURSIVE ScanStops(_, _, _)
ScanStops(stop_orders, current_stop_price, current_take_price) ==
    IF stop_orders = <<>>
    THEN [dup |-> FALSE, sl |-> current_stop_price, tp |-> current_take_price]
    ELSE LET o == Head(stop_orders) IN
         IF o.order_type = "stop_loss"
         THEN IF current_stop_price # None
              THEN [dup |-> TRUE, sl |-> current_stop_price, tp |-> current_take_price]
              ELSE ScanStops(Tail(stop_orders), o.stop_price, current_take_price)
         ELSE IF o.order_type = "take_profit"
         THEN IF current_take_price # None
              THEN [dup |-> TRUE, sl |-> current_stop_price, tp |-> current_take_price]
              ELSE ScanStops(Tail(stop_orders), current_stop_price, o.stop_price)
         ELSE ScanStops(Tail(stop_orders), current_stop_price, current_take_price)

\* BrokerService._should_update_stop_orders
should_update_stop_orders(stop_orders, stop_price, take_price) ==
    LET r == ScanStops(stop_orders, None, None) IN
    r.dup \/ stop_price # r.sl \/ take_price # r.tp

\* EnsureOrder(type, quantity, order_id, action, price)
EnsureOrder(type, quantity, order_id, action, price) ==
    [type |-> type, quantity |-> quantity, order_id |-> order_id,
     action |-> action, price |-> price]

\* Order ids 1..n given to a set of n stop orders.
RECURSIVE WithIds(_)
WithIds(S) ==
    IF S = {} THEN {}
    ELSE LET k == CHOOSE x \in S : TRUE
         IN WithIds(S \ {k}) \cup {StopOrder(Cardinality(S), k)}

\* The broker before the first call: any position, any stop orders.
EInit ==
    /\ brokerQty \in (-MaxQty)..MaxQty
    /\ \E S \in SUBSET StopKinds :
          /\ Cardinality(S) <= MaxInitStops
          /\ brokerStops = WithIds(S)
          /\ nextId = Cardinality(S) + 1
    /\ ens = [pc |-> "idle"]
    /\ nrun = 0

\* What is remembered of a call once the next one starts: how it ended,
\* its target, the orders it returned and what sizing answered.
Summary(e) ==
    IF e.pc = "idle" THEN [pc |-> "idle"]
    ELSE [pc |-> e.pc, desired_position |-> e.desired_position,
          stop_price |-> e.stop_price, take_price |-> e.take_price,
          orders |-> e.orders, sized |-> e.sized]

\* A caller (process_signal) reads the position and calls ensure_position
\* (lines 141-148).
EnsureCall(desired_position, stop_price, take_price) ==
    /\ ens.pc \in {"idle", "returned", "failed"}
    /\ nrun' = nrun + 1
    /\ ens' = [pc |-> "get_init_stops",
               desired_position |-> desired_position,
               stop_price |-> stop_price, take_price |-> take_price,
               init_pos_qty |-> brokerQty,
               init_stop_orders |-> {},
               expected_pos_qty |-> brokerQty,
               final_pos_qty |-> 0,
               final_stop_orders |-> {},
               orders |-> <<>>,
               calls |-> <<>>,
               sized |-> <<>>,
               error |-> "none",
               prev |-> Summary(ens)]
    /\ UNCHANGED <<brokerQty, brokerStops, nextId>>
    /\ UNCHANGED <<qvars, cvars>>

\* Mutant: flat leaves an open position alone.
AfterInit_keep(desired_position, q) ==
    CASE desired_position = "long" ->
            IF q < 0 THEN "cancel_init" ELSE IF q = 0 THEN "size" ELSE "wait"
      [] desired_position = "short" ->
            IF q > 0 THEN "cancel_init" ELSE IF q = 0 THEN "size" ELSE "wait"
      [] OTHER -> "wait"

\* Mutant: a position that already has the desired sign is sized again.
AfterInit_resize(desired_position, q) ==
    CASE desired_position = "long" ->
            IF q < 0 THEN "cancel_init" ELSE "size"
      [] desired_position = "short" ->
            IF q > 0 THEN "cancel_init" ELSE "size"
      [] OTHER -> IF q # 0 THEN "close" ELSE "wait"

\* Where the code goes after line 148.
AfterInit(desired_position, q) ==
    CASE desired_position = "long" ->
            IF q < 0 THEN "cancel_init" ELSE IF q = 0 THEN "size" ELSE "wait"
      [] desired_position = "short" ->
            IF q > 0 THEN "cancel_init" ELSE IF q = 0 THEN "size" ELSE "wait"
      [] OTHER -> IF q # 0 THEN "close" ELSE "wait"

\* line 144: init_stop_orders = get_current_stop_orders(...)
GetInitStops ==
    /\ ens.pc = "get_init_stops"
    /\ ens' = [ens EXCEPT
         !.init_stop_orders = brokerStops,
         !.calls = Append(@, "get_current_stop_orders"),
         !.pc = AfterInit(ens.desired_position, ens.init_pos_qty)]
    /\ UNCHANGED <<brokerQty, brokerStops, nextId, nrun>>
    /\ UNCHANGED <<qvars, cvars>>

\* Mutant: the flip goes on without cancelling the stops seen at entry.
CancelInit_skip ==
    /\ ens.pc = "cancel_init"
    /\ ens' = [ens EXCEPT !.calls = Append(@, "cancel_stop_orders"), !.pc = "close"]
    /\ UNCHANGED <<brokerQty, brokerStops, nextId, nrun>>
    /\ UNCHANGED <<qvars, cvars>>

\* lines 155 / 176: cancel_stop_orders(init_stop_orders)
CancelInit ==
    /\ ens.pc = "cancel_init"
    /\ brokerStops' = brokerStops \ ens.init_stop_orders
    /\ ens' = [ens EXCEPT !.calls = Append(@, "cancel_stop_orders"), !.pc = "close"]
    /\ UNCHANGED <<brokerQty, nextId, nrun>>
    /\ UNCHANGED <<qvars, cvars>>

\* lines 156-157, 177-178, 196-198, 202-204: the closing market order
Close ==
    LET q == ens.init_pos_qty
        flat == ens.desired_position = "flat" IN
    /\ ens.pc = "close"
    /\ brokerQty' = brokerQty - q
    /\ nextId' = nextId + 1
    /\ ens' = [ens EXCEPT
         !.orders = Append(@,
             IF q < 0 THEN EnsureOrder("buy", -q, nextId, "close_short", None)
                      ELSE EnsureOrder("sell", q, nextId, "close_long", None)),
         !.expected_pos_qty = IF flat THEN 0 ELSE @,
         !.calls = Append(@, "place_market_order"),
         !.pc = IF flat THEN "wait" ELSE "size"]
    /\ UNCHANGED <<brokerStops, nrun>>
    /\ UNCHANGED <<qvars, cvars>>

\* lines 159-161 / 180-182: available_qty = calculate_position_size(...)
Size(available_qty) ==
    /\ ens.pc = "size"
    /\ ens' = [ens EXCEPT
         !.expected_pos_qty =
             IF ens.desired_position = "long" THEN available_qty ELSE -available_qty,
         !.sized = <<available_qty>>,
         !.calls = Append(@, "calculate_position_size"),
         !.pc = IF available_qty > 0 THEN "open" ELSE "wait"]
    /\ UNCHANGED <<brokerQty, brokerStops, nextId, nrun>>
    /\ UNCHANGED <<qvars, cvars>>

\* Mutant: the opening order is placed but not appended to orders.
Open_norecord ==
    /\ ens.pc = "open"
    /\ brokerQty' = brokerQty + ens.expected_pos_qty
    /\ nextId' = nextId + 1
    /\ ens' = [ens EXCEPT !.calls = Append(@, "place_market_order"), !.pc = "wait"]
    /\ UNCHANGED <<brokerStops, nrun>>
    /\ UNCHANGED <<qvars, cvars>>

\* lines 164-165 / 185-186: the opening market order
Open ==
    LET long == ens.desired_position = "long"
        n == Abs(ens.expected_pos_qty) IN
    /\ ens.pc = "open"
    /\ brokerQty' = brokerQty + ens.expected_pos_qty
    /\ nextId' = nextId + 1
    /\ ens' = [ens EXCEPT
         !.orders = Append(@,
             IF long THEN EnsureOrder("buy", n, nextId, "open_long", None)
                     ELSE EnsureOrder("sell", n, nextId, "open_short", None)),
         !.calls = Append(@, "place_market_order"),
         !.pc = "wait"]
    /\ UNCHANGED <<brokerStops, nrun>>
    /\ UNCHANGED <<qvars, cvars>>

\* lines 208-209: get_position_waiting_for_state(expected_pos_qty) returns
\* the position once it has the expected quantity, and raises the timeout
\* error when it never has.
Wait ==
    /\ ens.pc = "wait"
    /\ ens' = [ens EXCEPT
         !.final_pos_qty = IF brokerQty = ens.expected_pos_qty THEN brokerQty ELSE @,
         !.calls = Append(@, "get_position_waiting_for_state"),
         !.error = IF brokerQty = ens.expected_pos_qty THEN @
                   ELSE "get_position_waiting_for_state",
         !.pc = IF brokerQty = ens.expected_pos_qty THEN "get_final_stops" ELSE "failed"]
    /\ UNCHANGED <<brokerQty, brokerStops, nextId, nrun>>
    /\ UNCHANGED <<qvars, cvars>>

\* Mutant: the stops are refreshed only when the quantity changed.
GetFinalStops_qtyonly ==
    /\ ens.pc = "get_final_stops"
    /\ ens' = [ens EXCEPT
         !.final_stop_orders = brokerStops,
         !.calls = Append(@, "get_current_stop_orders"),
         !.pc = IF ens.final_pos_qty # ens.init_pos_qty
                THEN "cancel_final" ELSE "returned"]
    /\ UNCHANGED <<brokerQty, brokerStops, nextId, nrun>>
    /\ UNCHANGED <<qvars, cvars>>

\* lines 210-214 and 238-241: final_stop_orders and the refresh decision
GetFinalStops ==
    /\ ens.pc = "get_final_stops"
    /\ ens' = [ens EXCEPT
         !.final_stop_orders = brokerStops,
         !.calls = Append(@, "get_current_stop_orders"),
         !.pc = IF \/ ens.final_pos_qty # ens.init_pos_qty
                   \/ should_update_stop_orders(AsList(brokerStops),
                                                ens.stop_price, ens.take_price)
                THEN "cancel_final" ELSE "returned"]
    /\ UNCHANGED <<brokerQty, brokerStops, nextId, nrun>>
    /\ UNCHANGED <<qvars, cvars>>

\* Where the code goes after the stop-loss branch / after line 217.
AfterStopLoss(e) ==
    IF e.final_pos_qty # 0 /\ Truthy(e.take_price) THEN "place_tp" ELSE "returned"
\* Mutant: a stop-loss is placed whenever stop_price is given, also for a
\* flat final position.
AfterCancel_anyqty(e) ==
    IF Truthy(e.stop_price) THEN "place_sl" ELSE AfterStopLoss(e)
AfterCancel(e) ==
    IF e.final_pos_qty # 0 /\ Truthy(e.stop_price) THEN "place_sl" ELSE AfterStopLoss(e)

\* line 217: cancel_stop_orders(final_stop_orders)
CancelFinal ==
    /\ ens.pc = "cancel_final"
    /\ brokerStops' = brokerStops \ ens.final_stop_orders
    /\ ens' = [ens EXCEPT !.calls = Append(@, "cancel_stop_orders"),
                          !.pc = AfterCancel(ens)]
    /\ UNCHANGED <<brokerQty, nextId, nrun>>
    /\ UNCHANGED <<qvars, cvars>>

\* Mutant: protective stops always buy.
StopDirection_buy(final_pos_qty) == "buy"

\* The direction of a protective stop (lines 220-234).
StopDirection(final_pos_qty) == IF final_pos_qty > 0 THEN "sell" ELSE "buy"

\* lines 221-223 / 229-231: place_stop_loss_order
PlaceStopLoss ==
    LET n == Abs(ens.final_pos_qty) IN
    /\ ens.pc = "place_sl"
    /\ brokerStops' = brokerStops \cup
         {[order_id |-> nextId, order_type |-> "stop_loss",
           direction |-> StopDirection(ens.final_pos_qty),
           quantity |-> n,
           stop_price |-> QuotationToFloat(Quotation(ens.stop_price))]}
    /\ nextId' = nextId + 1
    /\ ens' = [ens EXCEPT
         !.orders = Append(@, EnsureOrder("stop_loss", n, nextId, None, ens.stop_price)),
         !.calls = Append(@, "place_stop_loss_order"),
         !.pc = AfterStopLoss(ens)]
    /\ UNCHANGED <<brokerQty, nrun>>
    /\ UNCHANGED <<qvars, cvars>>

\* Mutant: the take-profit covers the quantity seen at entry.
PlaceTakeProfit_initqty ==
    LET n == Abs(ens.init_pos_qty) IN
    /\ ens.pc = "place_tp"
    /\ brokerStops' = brokerStops \cup
         {[order_id |-> nextId, order_type |-> "take_profit",
           direction |-> StopDirection(ens.final_pos_qty),
           quantity |-> n,
           stop_price |-> QuotationToFloat(Quotation(ens.take_price))]}
    /\ nextId' = nextId + 1
    /\ ens' = [ens EXCEPT
         !.orders = Append(@, EnsureOrder("take_profit", n, nextId, None, ens.take_price)),
         !.calls = Append(@, "place_take_profit_order"),
         !.pc = "returned"]
    /\ UNCHANGED <<brokerQty, nrun>>
    /\ UNCHANGED <<qvars, cvars>>

\* lines 224-226 / 232-234: place_take_profit_order
PlaceTakeProfit ==
    LET n == Abs(ens.final_pos_qty) IN
    /\ ens.pc = "place_tp"
    /\ brokerStops' = brokerStops \cup
         {[order_id |-> nextId, order_type |-> "take_profit",
           direction |-> StopDirection(ens.final_pos_qty),
           quantity |-> n,
           stop_price |-> QuotationToFloat(Quotation(ens.take_price))]}
    /\ nextId' = nextId + 1
    /\ ens' = [ens EXCEPT
         !.orders = Append(@, EnsureOrder("take_profit", n, nextId, None, ens.take_price)),
         !.calls = Append(@, "place_take_profit_order"),
         !.pc = "returned"]
    /\ UNCHANGED <<brokerQty, nrun>>
    /\ UNCHANGED <<qvars, cvars>>

\* The adapter method called at each position of ensure_position.
MethodAt(pc) ==
    CASE pc \in {"get_init_stops", "get_final_stops"} -> "get_current_stop_orders"
      [] pc \in {"cancel_init", "cancel_final"} -> "cancel_stop_orders"
      [] pc \in {"close", "open"} -> "place_market_order"
      [] pc = "size" -> "calculate_position_size"
      [] pc = "wait" -> "get_position_waiting_for_state"
      [] pc = "place_sl" -> "place_stop_loss_order"
      [] pc = "place_tp" -> "place_take_profit_order"
      [] OTHER -> "none"

\* Mutant: the error of an adapter call is swallowed and the call goes on.
AdapterError_swallow ==
    /\ ens.pc \notin {"idle", "returned", "failed"}
    /\ ens.error = "none"
    /\ ens' = [ens EXCEPT !.error = MethodAt(ens.pc)]
    /\ UNCHANGED <<brokerQty, brokerStops, nextId, nrun>>
    /\ UNCHANGED <<qvars, cvars>>

\* The adapter call the code is about to make raises: nothing is caught in
\* ensure_position, the error leaves it.
AdapterError ==
    /\ ens.pc \notin {"idle", "returned", "failed"}
    /\ ens' = [ens EXCEPT !.pc = "failed", !.error = MethodAt(ens.pc)]
    /\ UNCHANGED <<brokerQty, brokerStops, nextId, nrun>>
    /\ UNCHANGED <<qvars, cvars>>

\* cancel_stop_orders cancels the orders one request at a time
\* (tinvest.py:274-276, finam.py:214-215): a request that fails after
\* n >= 1 orders were cancelled leaves those cancelled.
CancelInterrupted(n) ==
    LET target == IF ens.pc = "cancel_init" THEN ens.init_stop_orders
                  ELSE ens.final_stop_orders
        list == AsList(target) IN
    /\ ens.pc \in {"cancel_init", "cancel_final"}
    /\ n >= 1 /\ n < Len(list)
    /\ brokerStops' = brokerStops \ {list[i] : i \in 1..n}
    /\ ens' = [ens EXCEPT !.pc = "failed", !.error = "cancel_stop_orders"]
    /\ UNCHANGED <<brokerQty, nextId, nrun>>
    /\ UNCHANGED <<qvars, cvars>>

\* ----------------------------------------------------------- stop check
\* The lists get_current_stop_orders can return: up to MaxCheckedStops
\* stop orders of either kind, ids in ascending order.
RECURSIVE StopListsOfLen(_)
StopListsOfLen(n) ==
    IF n = 0 THEN {<<>>}
    ELSE {Append(l, StopOrder(n, k)) :
            l \in StopListsOfLen(n - 1),
            k \in {x \in StopKinds : x.quantity = 1 /\ x.direction = "sell"}}

StopLists == UNION {StopListsOfLen(n) : n \in 0..MaxCheckedStops}

\* A caller is about to ask whether the stops need an update.
InitCheck ==
    \E stop_orders \in StopLists :
    \E stop_price \in ReqPrices : \E take_price \in ReqPrices :
        calc = [op |-> "_should_update_stop_orders", pc |-> "call",
                stop_orders |-> stop_orders, stop_price |-> stop_price,
                take_price |-> take_price, result |-> FALSE]

\* The call.
ShouldUpdateStopOrders ==
    /\ calc.op = "_should_update_stop_orders"
    /\ calc.pc = "call"
    /\ calc' = [calc EXCEPT
                  !.pc = "returned",
                  !.result = should_update_stop_orders(calc.stop_orders,
                                 calc.stop_price, calc.take_price)]
    /\ UNCHANGED <<qvars, evars>>

\* ------------------------------------------------------ position sizing
\* min() and max()
Min(a, b) == IF a <= b THEN a ELSE b
Max(a, b) == IF a >= b THEN a ELSE b

\* Arguments and broker answers of one calculate_position_size call: money
\* in whole currency units, leverage in percent.
SizeInputs ==
    [available_money : (-MaxMoney)..MaxMoney,
     reserve_capital : 0..MaxReserve,
     leverage_percent : Leverages,
     last_price : 1..MaxPrice,
     lot_size : 1..MaxLotSize,
     initial_margin_long : 1..MaxMargin,
     initial_margin_short : 1..MaxMargin,
     position_direction : {"long", "short"}]

\* FinamBrokerService.calculate_position_size (finam.py:133-161):
\*   quantity_by_balance  = int(available_money // initial_margin_<direction>)
\*   quantity_by_leverage = int(leverage_cap // per_lot_cost), leverage_cap =
\*     (available_money + reserve_capital) * (leverage_percent / 100.0),
\*     per_lot_cost = last_price * lot_size
\*   return min(quantity_by_balance, quantity_by_leverage)
\* `//` floors, as \div does. TInvestBrokerService (tinvest.py:162-213)
\* takes quantity_by_margin from the broker and ends with the same min().
quantity_by_balance(a) ==
    IF a.position_direction = "long"
    THEN a.available_money \div a.initial_margin_long
    ELSE a.available_money \div a.initial_margin_short

\* leverage_cap // per_lot_cost with both sides multiplied by 100
quantity_by_leverage(a) ==
    ((a.available_money + a.reserve_capital) * a.leverage_percent)
        \div (100 * a.last_price * a.lot_size)

calculate_position_size(a) ==
    Min(quantity_by_balance(a), quantity_by_leverage(a))

\* A caller is about to size a position.
InitSize ==
    \E a \in SizeInputs :
        calc = [op |-> "calculate_position_size", pc |-> "call", args |-> a,
                result |-> 0]

\* The call.
CalculatePositionSize ==
    /\ calc.op = "calculate_position_size"
    /\ calc.pc = "call"
    /\ calc' = [calc EXCEPT !.pc = "returned",
                            !.result = calculate_position_size(calc.args)]
    /\ UNCHANGED <<qvars, evars>>

\* ------------------------------------------------------ settlement wait
\* What get_position returns: None (<<>>) or a Position (<<p>>).
NoPosition == <<>>
PositionValues ==
    {NoPosition} \cup
    {<<p>> : p \in [quantity : (-MaxQty)..MaxQty, average_price : 0..1]}

\* Mutant: a position is ready as soon as its quantity matches.
Ready_anyprice(position, expected_quantity) ==
    \/ /\ position # NoPosition
       /\ position[1].quantity = expected_quantity
    \/ /\ position = NoPosition
       /\ expected_quantity = 0

\* The condition of get_position_waiting_for_state (tinvest.py:124-125,
\* finam.py:108-109): `position and position.quantity == expected_quantity
\* and (position.average_price != 0 or expected_quantity == 0) or not
\* position and expected_quantity == 0`.
Ready(position, expected_quantity) ==
    \/ /\ position # NoPosition
       /\ position[1].quantity = expected_quantity
       /\ position[1].average_price # 0 \/ expected_quantity = 0
    \/ /\ position = NoPosition
       /\ expected_quantity = 0

\* get_position_waiting_for_state(info, expected_quantity, max_attempts) is
\* called; attempt counts the get_position calls made.
InitWait ==
    \E e \in (-MaxQty)..MaxQty : \E m \in 0..MaxAttempts :
        calc = [op |-> "get_position_waiting_for_state", pc |-> "poll",
                expected_quantity |-> e, max_attempts |-> m, attempt |-> 0,
                result |-> NoPosition, error |-> "none"]

\* One pass of the loop: get_position answers `position`; it is returned
\* if ready, otherwise the thread sleeps and the loop goes on.
Poll(position) ==
    /\ calc.op = "get_position_waiting_for_state"
    /\ calc.pc = "poll"
    /\ calc.attempt < calc.max_attempts
    /\ calc' = IF Ready(position, calc.expected_quantity)
               THEN [calc EXCEPT !.attempt = @ + 1, !.pc = "returned",
                                 !.result = position]
               ELSE [calc EXCEPT !.attempt = @ + 1]
    /\ UNCHANGED <<qvars, evars>>

\* get_position raises (a broker request error): the error leaves the
\* loop.
PollRaises ==
    /\ calc.op = "get_position_waiting_for_state"
    /\ calc.pc = "poll"
    /\ calc.attempt < calc.max_attempts
    /\ calc' = [calc EXCEPT !.attempt = @ + 1, !.pc = "raised",
                            !.error = "REQUEST_ERROR"]
    /\ UNCHANGED <<qvars, evars>>

\* The loop is exhausted: raise TradingError POSITION_STATE_READY_TIMEOUT.
Timeout ==
    /\ calc.op = "get_position_waiting_for_state"
    /\ calc.pc = "poll"
    /\ calc.attempt = calc.max_attempts
    /\ calc' = [calc EXCEPT !.pc = "raised",
                            !.error = "POSITION_STATE_READY_TIMEOUT"]
    /\ UNCHANGED <<qvars, evars>>

\* --------------------------------------------------- signal resolution
\* The head of process_signal (signal_service.py:36-52): the instrument
\* is resolved, the position read, and the reconciliation started.

\* What get_instrument_type answers: a type get_instrument_info knows, one
\* it does not, or None for an instrument the broker does not know.
SupportedTypes == {"share"}
TypeAnswers == SupportedTypes \cup {"sp", "none"}

\* process_signal is called; svc_calls logs the broker calls it makes
\* itself, broker what the account held when it was called.
InitResolve ==
    calc = [op |-> "process_signal", pc |-> "get_instrument_type",
            instrument_type |-> "unknown", error |-> "none",
            svc_calls |-> <<>>,
            broker |-> [quantity |-> brokerQty, stop_orders |-> brokerStops]]

\* Mutant: a missing instrument type is passed on to get_instrument_info.
GetInstrumentType_nocheck(instrument_type) ==
    /\ calc.op = "process_signal"
    /\ calc.pc = "get_instrument_type"
    /\ calc' = [calc EXCEPT
                  !.instrument_type = instrument_type,
                  !.svc_calls = Append(@, "get_instrument_type"),
                  !.pc = "get_instrument_info"]
    /\ UNCHANGED <<qvars, evars>>

\* lines 36-42: get_instrument_type returns; `if not instrument_type`
\* raises TradingError INSTRUMENT_NOT_FOUND.
GetInstrumentType(instrument_type) ==
    /\ calc.op = "process_signal"
    /\ calc.pc = "get_instrument_type"
    /\ calc' = [calc EXCEPT
                  !.instrument_type = instrument_type,
                  !.svc_calls = Append(@, "get_instrument_type"),
                  !.error = IF instrument_type = "none"
                            THEN "INSTRUMENT_NOT_FOUND" ELSE @,
                  !.pc = IF instrument_type = "none"
                         THEN "raised" ELSE "get_instrument_info"]
    /\ UNCHANGED <<qvars, evars>>

\* line 43: get_instrument_info returns, or raises ValueError for a type
\* it does not know (tinvest_service.py:85-104).
GetInstrumentInfo ==
    /\ calc.op = "process_signal"
    /\ calc.pc = "get_instrument_info"
    /\ calc' = IF calc.instrument_type \in SupportedTypes
               THEN [calc EXCEPT
                       !.svc_calls = Append(@, "get_instrument_info"),
                       !.pc = "get_position"]
               ELSE [calc EXCEPT
                       !.svc_calls = Append(@, "get_instrument_info"),
                       !.error = "ValueError",
                       !.pc = "raised"]
    /\ UNCHANGED <<qvars, evars>>

\* line 45: init_position = get_position(...)
GetPosition ==
    /\ calc.op = "process_signal"
    /\ calc.pc = "get_position"
    /\ calc' = [calc EXCEPT
                  !.svc_calls = Append(@, "get_position"),
                  !.pc = "handle"]
    /\ UNCHANGED <<qvars, evars>>

\* A broker request of lines 36-45 raises RequestError (any code but
\* NOT_FOUND for get_instrument_type): it leaves process_signal.
ResolveRaises ==
    /\ calc.op = "process_signal"
    /\ calc.pc \in {"get_instrument_type", "get_instrument_info", "get_position"}
    /\ calc' = [calc EXCEPT !.error = "RequestError", !.pc = "raised"]
    /\ UNCHANGED <<qvars, evars>>

\* lines 49-52: _handle_flat_signal / _handle_position_signal call
\* ensure_position.
HandleSignal(desired_position, stop_price, take_price) ==
    /\ calc.op = "process_signal"
    /\ calc.pc = "handle"
    /\ nrun < MaxRuns
    /\ EnsureCall(desired_position, stop_price, take_price)

\* ------------------------------------------------------ signal reporting
\* process_signal after the reconciliation (signal_service.py:45-56): the
\* initial position, the orders ensure_position returned, their fills
\* pulled from the broker, then _calculate_slippage and _calculate_profit.
\* An Optional value that may be negative is <<>> (None) or <<v>>.

\* An EnsurePositionOrder of a market leg, not yet pulled.
MarketOrder(type, action, quantity) ==
    [type |-> type, quantity |-> quantity, order_id |-> 0, action |-> action,
     price |-> None, state |-> <<>>]

\* An EnsurePositionOrder of a stop order.
StopOrderPlaced(type, quantity, price) ==
    [type |-> type, quantity |-> quantity, order_id |-> 0, action |-> "none",
     price |-> price, state |-> <<>>]

\* The quantity the position ends with (ensure_position's final_qty).
FinalQty(current_qty, desired_position, n) ==
    CASE desired_position = "long" ->
             IF current_qty <= 0 THEN Max(n, 0) ELSE current_qty
      [] desired_position = "short" ->
             IF current_qty >= 0 THEN -Max(n, 0) ELSE current_qty
      [] OTHER -> 0

\* The market legs ensure_position appends, in order: the closing leg of
\* the current position, then the opening leg of n lots.
EnsureMarketOrders(current_qty, desired_position, n) ==
    LET closing ==
            IF current_qty > 0 /\ desired_position # "long"
            THEN <<MarketOrder("sell", "close_long", current_qty)>>
            ELSE IF current_qty < 0 /\ desired_position # "short"
            THEN <<MarketOrder("buy", "close_short", Abs(current_qty))>>
            ELSE <<>>
        opening ==
            IF desired_position = "long" /\ current_qty <= 0 /\ n > 0
            THEN <<MarketOrder("buy", "open_long", n)>>
            ELSE IF desired_position = "short" /\ current_qty >= 0 /\ n > 0
            THEN <<MarketOrder("sell", "open_short", n)>>
            ELSE <<>>
    IN closing \o opening

\* The stop orders ensure_position appends after the market legs when the
\* position changed or the stop prices differ.
EnsureStopOrders(final_qty, stop_price, take_price) ==
    IF final_qty = 0 THEN <<>>
    ELSE (IF stop_price # None /\ stop_price # 0
          THEN <<StopOrderPlaced("stop_loss", Abs(final_qty), stop_price)>>
          ELSE <<>>)
         \o
         (IF take_price # None /\ take_price # 0
          THEN <<StopOrderPlaced("take_profit", Abs(final_qty), take_price)>>
          ELSE <<>>)

\* Every order gets the id the broker returned; ids are unique.
NumberOrders(orders) ==
    [i \in 1..Len(orders) |-> [orders[i] EXCEPT !.order_id = i]]

\* The order lists ensure_position can return for a position of
\* current_qty lots. `update` is whether the stop orders were replaced.
EnsureOrderLists(current_qty) ==
    {NumberOrders(
        EnsureMarketOrders(current_qty, d, n) \o
        (IF update \/ EnsureMarketOrders(current_qty, d, n) # <<>>
         THEN EnsureStopOrders(FinalQty(current_qty, d, n),
                               IF d = "flat" THEN None ELSE sp,
                               IF d = "flat" THEN None ELSE tp)
         ELSE <<>>)) :
     d \in {"long", "short", "flat"}, n \in 0..1, update \in BOOLEAN,
     sp \in {None, MaxPrice}, tp \in {None, MaxPrice}}

\* get_position: None or a PositionInfo.
InitPositions ==
    {NoPosition} \cup
    {<<p>> : p \in [quantity : (-1)..1, average_price : 1..MaxPrice]}

\* Fill prices and order dates the broker reports.
FillPrices == 1..MaxPrice
OrderDates == 0..1

InitReport ==
    \E position \in InitPositions :
    \E ensure_orders \in EnsureOrderLists(
            IF position = NoPosition THEN 0 ELSE position[1].quantity) :
    \E lot_size \in 1..MaxLotSize :
    \E basic_asset_size \in {None, 2} :
    \E entry_price \in {None, 0} \cup (1..MaxPrice) :
    \E entry_time \in {None, 0} :
        calc = [op |-> "process_signal", pc |-> "ensured",
                init_position |-> position,
                ensure_orders |-> ensure_orders,
                lot_size |-> lot_size,
                basic_asset_size |-> basic_asset_size,
                entry_price |-> entry_price,
                entry_time |-> entry_time,
                slippage |-> <<>>,
                profit |-> <<>>]

\* pull_ensure_orders_state: every buy or sell order gets its state (date
\* and average fill price) from the broker; stop orders keep state None.
pull_ensure_orders_state(ensure_orders, fill) ==
    [i \in 1..Len(ensure_orders) |->
        IF ensure_orders[i].type \in {"buy", "sell"}
        THEN [ensure_orders[i] EXCEPT !.state = <<fill[i]>>]
        ELSE ensure_orders[i]]

PullEnsureOrdersState ==
    /\ calc.op = "process_signal"
    /\ calc.pc = "ensured"
    /\ \E fill \in [1..Len(calc.ensure_orders) ->
                        [date : OrderDates, price : FillPrices]] :
          calc' = [calc EXCEPT
                     !.ensure_orders =
                         pull_ensure_orders_state(calc.ensure_orders, fill),
                     !.pc = "pulled"]
    /\ UNCHANGED <<qvars, evars>>

\* Mutant: every leg's slippage is order price minus entry price.
price_slippage_buying(ensure_order, entry_price) ==
    <<ensure_order.state[1].price - entry_price>>

\* signal_service.py:127-134.
price_slippage(ensure_order, entry_price) ==
    IF entry_price = None \/ entry_price = 0 THEN <<>>
    ELSE IF ensure_order.action \in {"open_short", "close_long"}
    THEN <<entry_price - ensure_order.state[1].price>>
    ELSE <<ensure_order.state[1].price - entry_price>>

\* signal_service.py:136-138.
time_slippage(ensure_order, entry_time) ==
    IF entry_time = None THEN <<>>
    ELSE <<ensure_order.state[1].date - entry_time>>

\* _calculate_slippage: the dict order_id -> {price, time}, as a function
\* on the order ids that got an entry.
_calculate_slippage(entry_price, entry_time, ensure_orders) ==
    IF (entry_price = None \/ entry_price = 0) /\ entry_time = None
    THEN <<>>
    ELSE LET ids == {ensure_orders[i].order_id :
                        i \in {j \in 1..Len(ensure_orders) :
                                  ensure_orders[j].type \in {"buy", "sell"}}}
             OrderOf(id) ==
                 ensure_orders[CHOOSE i \in 1..Len(ensure_orders) :
                                  ensure_orders[i].order_id = id]
         IN [id \in ids |->
                [price |-> price_slippage(OrderOf(id), entry_price),
                 time |-> time_slippage(OrderOf(id), entry_time)]]

CalculateSlippage ==
    /\ calc.op = "process_signal"
    /\ calc.pc = "pulled"
    /\ calc' = [calc EXCEPT
                  !.slippage = _calculate_slippage(calc.entry_price,
                                   calc.entry_time, calc.ensure_orders),
                  !.pc = "slippage"]
    /\ UNCHANGED <<qvars, evars>>

\* The loop of _calculate_profit over profit_orders
\* (signal_service.py:160-165).
RECURSIVE ProfitOf(_, _, _, _, _)
ProfitOf(orders, action_filter, profit_multiplier, average_price, lot_qty) ==
    IF orders = <<>> THEN 0
    ELSE LET ensure_order == Head(orders)
             rest == ProfitOf(Tail(orders), action_filter,
                              profit_multiplier, average_price, lot_qty)
         IN IF ensure_order.action = action_filter
            THEN profit_multiplier
                   * (ensure_order.state[1].price - average_price)
                   * (ensure_order.quantity * lot_qty)
                 + rest
            ELSE rest

\* _calculate_profit: None (<<>>) or the profit (<<p>>).
_calculate_profit(lot_size, basic_asset_size, position, ensure_orders) ==
    IF position = NoPosition \/ ensure_orders = <<>> THEN <<>>
    ELSE LET lot_qty ==
                 lot_size * (IF basic_asset_size = None \/ basic_asset_size = 0
                             THEN 1 ELSE basic_asset_size)
         IN IF position[1].quantity > 0
            THEN <<ProfitOf(ensure_orders, "close_long", 1,
                            position[1].average_price, lot_qty)>>
            ELSE <<ProfitOf(ensure_orders, "close_short", -1,
                            position[1].average_price, lot_qty)>>

CalculateProfit ==
    /\ calc.op = "process_signal"
    /\ calc.pc = "slippage"
    /\ calc' = [calc EXCEPT
                  !.profit = _calculate_profit(calc.lot_size,
                                 calc.basic_asset_size, calc.init_position,
                                 calc.ensure_orders),
                  !.pc = "profit"]
    /\ UNCHANGED <<qvars, evars>>

\* ------------------------------------------------------- specifications
\* The reconciler at rest (Spec, SpecPool); the queue at rest (SpecEnsure).
EIdle ==
    /\ brokerQty = 0
    /\ brokerStops = {}
    /\ nextId = 1
    /\ ens = [pc |-> "idle"]
    /\ nrun = 0

\* No call is studied on its own.
CIdle == calc = [op |-> "idle"]

vars == <<waiting, processing, tasks, hist, executor, brokerQty, brokerStops,
          nextId, ens, nrun, calc>>

\* The dispatcher: MaxSignals enqueue_signal calls over NumKeys keys.
Init == QInit(Keys) /\ EIdle /\ CIdle

Next ==
    \/ \E k \in Keys : Len(hist) < MaxSignals /\ enqueue_signal(k)
    \/ \E i \in Tasks : Promote(i)
    \/ \E i \in Tasks : \E o \in Outcomes : ProcessSignal(i, o)
    \/ \E i \in Tasks : Release(i)

Spec == Init /\ [][Next]_vars

\* The pool under load: one signal per key, keys taken in ascending order
\* (keys are interchangeable), max_workers + 1 keys.
InitPool == QInit(PoolKeys) /\ EIdle /\ CIdle

NextPool ==
    \/ Len(hist) < max_workers + 1 /\ enqueue_signal(Len(hist) + 1)
    \/ \E i \in Tasks : Promote(i)
    \/ \E i \in Tasks : tasks[i].key <= FastKeys /\ ProcessSignal(i, "no_orders")
    \/ \E i \in Tasks : Release(i)

SpecPool == InitPool /\ [][NextPool]_vars

\* The dispatcher with a shutdown: requests keep arriving until the
\* process has exited (shutdown has returned).
ShutdownOutcomes == {"no_orders", "error"}

NextShutdown ==
    \/ \E k \in Keys :
          Len(hist) < MaxSignals /\ ~executor.joined /\ enqueue_signal(k)
    \/ \E i \in Tasks : Promote(i)
    \/ \E i \in Tasks : \E o \in ShutdownOutcomes : ProcessSignal(i, o)
    \/ \E i \in Tasks : Release(i)
    \/ StopProcessing
    \/ ShutdownReturns

SpecShutdown == Init /\ [][NextShutdown]_vars

\* ensure_position called up to MaxRuns times against one broker.
InitEnsure == QInit(Keys) /\ EInit /\ CIdle

NextEnsure ==
    \/ \E d \in Positions : \E sp \in ReqPrices : \E tp \in ReqPrices :
          nrun < MaxRuns /\ EnsureCall(d, sp, tp)
    \/ GetInitStops
    \/ CancelInit
    \/ Close
    \/ \E n \in SizeResults : Size(n)
    \/ Open
    \/ Wait
    \/ GetFinalStops
    \/ CancelFinal
    \/ PlaceStopLoss
    \/ PlaceTakeProfit
    \/ AdapterError
    \/ \E n \in 1..MaxInitStops : CancelInterrupted(n)

SpecEnsure == InitEnsure /\ [][NextEnsure]_vars

\* ensure_position run twice in a row with the same target while nothing
\* else touches the account: the broker state the second run finds is the
\* one the first run left, and sizing answers as it did before.
SameSizing(available_qty) ==
    /\ ens.pc = "size"
    /\ IF ens.prev.pc = "idle" THEN TRUE
       ELSE ens.prev.sized \in {<<>>, <<available_qty>>}

NextTwice ==
    \/ \E d \in Positions : \E sp \in ReqPrices : \E tp \in ReqPrices :
          nrun = 0 /\ EnsureCall(d, sp, tp)
    \/ /\ nrun = 1
       /\ ens.pc = "returned"
       /\ EnsureCall(ens.desired_position, ens.stop_price, ens.take_price)
    \/ GetInitStops
    \/ CancelInit
    \/ Close
    \/ \E n \in SizeResults : SameSizing(n) /\ Size(n)
    \/ Open
    \/ Wait
    \/ GetFinalStops
    \/ CancelFinal
    \/ PlaceStopLoss
    \/ PlaceTakeProfit
    \/ AdapterError
    \/ \E n \in 1..MaxInitStops : CancelInterrupted(n)

SpecTwice == InitEnsure /\ [][NextTwice]_vars

\* calculate_position_size on its own.
InitSizing == QInit(Keys) /\ EIdle /\ InitSize
NextSizing == CalculatePositionSize
SpecSizing == InitSizing /\ [][NextSizing]_vars

\* _should_update_stop_orders on its own.
InitChecking == QInit(Keys) /\ EIdle /\ InitCheck
NextChecking == ShouldUpdateStopOrders
SpecChecking == InitChecking /\ [][NextChecking]_vars

\* get_position_waiting_for_state on its own, the broker answering each
\* poll with any position. The calling thread keeps running: every
\* get_position call and every sleep ends.
InitWaiting == QInit(Keys) /\ EIdle /\ InitWait
NextWaiting ==
    \/ \E position \in PositionValues : Poll(position)
    \/ PollRaises
    \/ Timeout
SpecWaiting == InitWaiting /\ [][NextWaiting]_vars /\ WF_vars(NextWaiting)

\* process_signal from its first line to the end of the reconciliation,
\* against any broker state.
InitResolving == QInit(Keys) /\ EInit /\ InitResolve
NextResolving ==
    \/ \E instrument_type \in TypeAnswers : GetInstrumentType(instrument_type)
    \/ GetInstrumentInfo
    \/ GetPosition
    \/ ResolveRaises
    \/ \E d \in Positions : \E sp \in ReqPrices : \E tp \in ReqPrices :
          HandleSignal(d, sp, tp)
    \/ GetInitStops
    \/ CancelInit
    \/ Close
    \/ \E n \in SizeResults : Size(n)
    \/ Open
    \/ Wait
    \/ GetFinalStops
    \/ CancelFinal
    \/ PlaceStopLoss
    \/ PlaceTakeProfit
    \/ AdapterError
    \/ \E n \in 1..MaxInitStops : CancelInterrupted(n)
SpecResolving == InitResolving /\ [][NextResolving]_vars

\* The reporting part of process_signal on every initial position, order
\* list, fill and signal entry data.
InitReporting == QInit(Keys) /\ EIdle /\ InitReport
NextReporting ==
    \/ PullEnsureOrdersState
    \/ CalculateSlippage
    \/ CalculateProfit
SpecReporting == InitReporting /\ [][NextReporting]_vars

\* ================================================================ claims
\* All tasks of the pool have ended and nothing waits.
Quiet == \A i \in Tasks : tasks[i].pc \in {"done", "crashed_promote", "crashed_release"}

SameKey(s1, s2) == hist[s1].key = hist[s2].key

\* C1: for every key, at most one reconciliation (process_signal call) of
\* that key is in flight at any instant, also when several enqueue_signal
\* calls arrive before the first submitted task has started.
C1_OneInFlightPerKey ==
    \A k \in DOMAIN processing : Cardinality(Reconciling(k)) <= 1

\* C2: for two signals s1, s2 of one key with s1 enqueued first, once s2's
\* reconciliation has started s1's is over (it ended before, it never starts
\* afterwards), or s1 was overwritten while waiting and is never processed.
C2_StrictOrderPerKey ==
    \A s1, s2 \in Signals :
        (s1 < s2 /\ SameKey(s1, s2) /\ hist[s2].runs > 0) =>
            /\ ~InFlight(s1)
            /\ ~hist[s1].late
            /\ (hist[s1].runs = 0 => hist[s1].replaced)

\* C3 (its safety half): in every state the most recently enqueued signal of
\* a key is in waiting[key], in processing[key], or has been reconciled.
C3_LatestNeverDropped ==
    \A k \in DOMAIN waiting :
        LET s == Latest(k) IN
        s # None => \/ waiting[k] = s
                    \/ processing[k] = s
                    \/ hist[s].ends > 0

\* C4: enqueueing while a signal of the key waits replaces that signal (the
\* waiting slot always holds the key's most recent signal), and a replaced
\* signal is never passed to process_signal: no run, no report of any kind.
C4_ReplacedNeverRuns ==
    /\ \A k \in DOMAIN waiting : waiting[k] # None => waiting[k] = Latest(k)
    /\ \A s \in Signals :
          hist[s].replaced =>
              /\ hist[s].runs = 0 /\ hist[s].ends = 0
              /\ hist[s].ok = 0 /\ hist[s].err = 0
              /\ waiting[hist[s].key] # s /\ processing[hist[s].key] # s

\* C4's case: a signal was replaced while waiting and its replacement has
\* been reconciled.
C4_Witness ==
    \E s, s2 \in Signals :
        /\ hist[s].replaced /\ s < s2 /\ SameKey(s, s2)
        /\ hist[s2].ends > 0

\* C5: a failing process_signal is reported exactly once, and its worker then
\* removes processing[key] and goes on to promote the waiting signal; no
\* processing entry is left without a worker that will remove it.
C5_ErrorReleasesKey ==
    /\ \A s \in Signals : hist[s].err <= hist[s].ends /\ hist[s].err <= 1
    /\ \A i \in Tasks :
          (tasks[i].sig # None /\ hist[tasks[i].sig].err > 0) =>
              tasks[i].pc # "crashed_release"
    /\ \A k \in DOMAIN processing :
          processing[k] # None =>
              \E i \in Tasks : tasks[i].key = k /\ tasks[i].pc \in {"process", "release"}

\* C6: from the moment a worker moves s into processing[key] until s's
\* process_signal call has returned, processing[key] holds s.
C6_ProcessingHoldsInFlight ==
    \A i \in Tasks : Processing(i) => processing[tasks[i].key] = tasks[i].sig

\* C7: signals A, B, C (the first three calls) of one key, B and C enqueued
\* before A's reconciliation has finished and nothing else enqueued: when
\* the pool is quiet again A and C have been reconciled once each, B never,
\* and C's reconciliation never overlapped A's.
C7_BurstFromIdle ==
    (/\ Len(hist) >= 3
     /\ SameKey(1, 2) /\ SameKey(2, 3)
     /\ 1 \in hist[2].open /\ 1 \in hist[3].open) =>
        /\ ~(InFlight(1) /\ InFlight(3))
        /\ hist[2].runs = 0
        /\ (Len(hist) = 3 /\ Quiet) =>
              /\ hist[1].runs = 1 /\ hist[1].ends = 1
              /\ hist[3].runs = 1 /\ hist[3].ends = 1

\* C8: of the signals of a key enqueued while one reconciliation x of that
\* key is in flight, only the last is reconciled: a signal b followed by a
\* later one c, both enqueued during x, is never reconciled.
C8_BurstWhileProcessing ==
    \A x, b, c \in Signals :
        (/\ x < b /\ b < c /\ SameKey(x, b) /\ SameKey(b, c)
         /\ x \in hist[b].during /\ x \in hist[c].during) =>
            hist[b].runs = 0

\* The work item at the head of the executor's queue.
HeadQueued(i) == i \in Queued /\ QueuedUpTo(i) = {i}

\* C9, as claimed: a queued promote task of a key without a processing entry
\* starts however many reconciliations of other keys are in flight.
C9_StartsRegardless ==
    \A i \in Tasks :
        (HeadQueued(i) /\ processing[tasks[i].key] = None) => ENABLED Promote(i)

\* C9, amended: it starts whenever fewer than max_workers tasks hold a pool
\* thread, whatever keys they work on and however long they run.
C9_StartsWhileWorkerFree ==
    \A i \in Tasks :
        (/\ HeadQueued(i)
         /\ processing[tasks[i].key] = None
         /\ Cardinality(Running) < max_workers) => ENABLED Promote(i)

\* C9's case: a task is queued while reconciliations of other keys are in
\* flight, and a reconciliation started while another key's was in flight.
C9_Witness ==
    /\ \E i \in Tasks : HeadQueued(i) /\ Cardinality(Running) = max_workers - 1
    /\ \E i, j \in Tasks :
          Processing(i) /\ Processing(j) /\ tasks[i].key # tasks[j].key

\* Active stop orders of one kind.
StopsOfType(ty) == {o \in brokerStops : o.order_type = ty}

\* C10: after a successful ensure_position the active stop orders are
\* exactly one stop_loss iff a stop price was requested and the final
\* quantity is not 0, one take_profit likewise, each for |final_qty| lots
\* (a price of 0 is read as no request, as the code reads it).
C10_StopsMatchTarget ==
    ens.pc = "returned" =>
        LET q == ens.final_pos_qty IN
        /\ Cardinality(StopsOfType("stop_loss")) =
              (IF Truthy(ens.stop_price) /\ q # 0 THEN 1 ELSE 0)
        /\ Cardinality(StopsOfType("take_profit")) =
              (IF Truthy(ens.take_price) /\ q # 0 THEN 1 ELSE 0)
        /\ \A o \in brokerStops : o.quantity = Abs(q)
\* ---- C11
\* The second of two consecutive runs with the same target.
SecondRun ==
    /\ ens.pc = "returned"
    /\ ens.prev.pc = "returned"
    /\ ens.prev.desired_position = ens.desired_position
    /\ ens.prev.stop_price = ens.stop_price
    /\ ens.prev.take_price = ens.take_price

\* C11: when ensure_position has returned twice in a row for the same
\* target (desired position, stop_price, take_price) and nothing changed the
\* broker state in between, the second run returned no order at all, neither
\* a market order nor a stop order.
C11_SecondRunIssuesNothing == SecondRun => ens.orders = <<>>

\* ---- C12
\* The market legs of an order list, and their signed sum.
IsLeg(o) == o.type \in {"buy", "sell"}
MarketLegs(orders) == SelectSeq(orders, IsLeg)
RECURSIVE NetLegs(_)
NetLegs(orders) ==
    IF orders = <<>> THEN 0
    ELSE LET o == Head(orders) IN
         (IF o.type = "buy" THEN o.quantity
          ELSE IF o.type = "sell" THEN -o.quantity ELSE 0) + NetLegs(Tail(orders))

Shape(o) == [type |-> o.type, quantity |-> o.quantity, action |-> o.action,
             price |-> o.price]
Shapes(orders) == [i \in DOMAIN orders |-> Shape(orders[i])]

\* C13: after ensure_position with desired position flat has returned, the
\* broker position is 0 and the market orders issued are exactly one closing
\* leg of |q| lots (sell / close_long for q > 0, buy / close_short for
\* q < 0), none for q = 0, q being the initial quantity.
C13_FlatCloses ==
    (ens.pc = "returned" /\ ens.desired_position = "flat") =>
        LET q == ens.init_pos_qty IN
        /\ brokerQty = 0
        /\ ens.final_pos_qty = 0
        /\ Shapes(MarketLegs(ens.orders)) =
              IF q > 0 THEN <<[type |-> "sell", quantity |-> q,
                               action |-> "close_long", price |-> None]>>
              ELSE IF q < 0 THEN <<[type |-> "buy", quantity |-> -q,
                                    action |-> "close_short", price |-> None]>>
              ELSE <<>>

\* A flat request closed an open position.
C13_Witness ==
    /\ ens.pc = "returned"
    /\ ens.desired_position = "flat"
    /\ ens.init_pos_qty # 0
    /\ Len(ens.orders) = 1

\* ---- C14
\* The orders of a fresh long of n lots; a price is given when `if price:`
\* holds.
FreshLongOrders(n, stop_price, take_price) ==
    <<[type |-> "buy", quantity |-> n, action |-> "open_long", price |-> None]>>
    \o (IF Truthy(stop_price)
        THEN <<[type |-> "stop_loss", quantity |-> n, action |-> None,
                price |-> stop_price]>>
        ELSE <<>>)
    \o (IF Truthy(take_price)
        THEN <<[type |-> "take_profit", quantity |-> n, action |-> None,
                price |-> take_price]>>
        ELSE <<>>)

\* C14: ensure_position from an absent position with desired long, sizing
\* answering n > 0, returns exactly: a market buy of n lots (open_long), then
\* a stop_loss iff stop_price was given, then a take_profit iff take_price
\* was given, both SELL for n lots at the broker; the final quantity is n.
C14_FreshLong ==
    (/\ ens.pc = "returned"
     /\ ens.desired_position = "long"
     /\ ens.init_pos_qty = 0
     /\ ens.sized # <<>>) =>
        LET n == ens.sized[1] IN
        n > 0 =>
          /\ Shapes(ens.orders) = FreshLongOrders(n, ens.stop_price, ens.take_price)
          /\ ens.final_pos_qty = n
          /\ brokerQty = n
          /\ \A i \in DOMAIN ens.orders :
                ens.orders[i].type \in {"stop_loss", "take_profit"} =>
                   \E o \in brokerStops :
                      /\ o.order_id = ens.orders[i].order_id
                      /\ o.order_type = ens.orders[i].type
                      /\ o.direction = "sell"
                      /\ o.quantity = n

\* A fresh long with both protective orders was returned.
C14_Witness ==
    /\ ens.pc = "returned"
    /\ ens.desired_position = "long"
    /\ ens.init_pos_qty = 0
    /\ Len(ens.orders) = 3

\* ---- C15
\* C15: a process_signal run passes a success report to the notifier if
\* and only if its reconciliation issued at least one order: for every
\* signal the runs that sent a success report are as many as the runs whose
\* reconciliation issued orders.
C15_SuccessReportIffOrders ==
    \A s \in Signals : hist[s].ok = hist[s].issued

\* ---- C16
\* C16: a failure of the notifier never fails a signal: process_signal
\* raises, and an error report is sent, only in runs whose reconciliation
\* raised, and the worker that ran the signal goes on to release the key.
C16_NotifierFailureSwallowed ==
    /\ \A s \in Signals :
          /\ hist[s].raised <= hist[s].failed
          /\ hist[s].err <= hist[s].failed
    /\ \A i \in Tasks : tasks[i].pc = "release" => ENABLED Release(i)

\* ---- C17
\* C17: calculate_position_size returns max(0, min(floor(balance /
\* margin_per_lot(direction)), floor(((balance + reserve_capital) *
\* leverage_percent / 100) / (last_price * lot_size)))); in particular the
\* result is never negative.
C17_SizeIsClampedMin ==
    (calc.op = "calculate_position_size" /\ calc.pc = "returned") =>
        LET a == calc.args
            margin_per_lot == IF a.position_direction = "long"
                              THEN a.initial_margin_long
                              ELSE a.initial_margin_short
            by_balance == a.available_money \div margin_per_lot
            by_leverage == ((a.available_money + a.reserve_capital)
                               * a.leverage_percent)
                           \div (100 * a.last_price * a.lot_size)
        IN /\ calc.result = Max(0, Min(by_balance, by_leverage))
           /\ calc.result >= 0

\* ---- C18
\* The call has ended.
WaitEnded == calc.pc \in {"returned", "raised"}

\* What holds at every moment of a get_position_waiting_for_state call.
WaitBounded ==
    /\ calc.attempt <= calc.max_attempts
    /\ calc.pc = "returned" =>
          \/ /\ calc.result # NoPosition
             /\ calc.result[1].quantity = calc.expected_quantity
             /\ calc.result[1].average_price # 0 \/ calc.expected_quantity = 0
          \/ calc.result = NoPosition /\ calc.expected_quantity = 0
    /\ (calc.pc = "poll" /\ calc.attempt = calc.max_attempts) =>
          /\ ENABLED Timeout
          /\ ~ENABLED PollRaises
          /\ \A position \in PositionValues : ~ENABLED Poll(position)
    /\ (calc.pc = "raised" /\ calc.error = "POSITION_STATE_READY_TIMEOUT") =>
          calc.attempt = calc.max_attempts

\* C18: get_position_waiting_for_state always terminates, after at most
\* max_attempts position queries; it returns only a position with quantity
\* = expected and (average_price # 0 or expected = 0), or absent when
\* expected = 0; when the polls are used up it raises the settlement
\* timeout error instead of returning an unsettled position.
C18_WaitTerminatesSettled == []WaitBounded /\ <>WaitEnded

\* A position with the expected non-zero quantity and a price was returned
\* on the last allowed poll.
C18_Witness ==
    /\ calc.op = "get_position_waiting_for_state"
    /\ calc.pc = "returned"
    /\ calc.expected_quantity # 0
    /\ calc.attempt = calc.max_attempts
    /\ calc.attempt > 1

\* ---- C19
\* The closing action of the side of a position: close_long for a long,
\* close_short for a short.
ClosingAction(position) ==
    IF position = NoPosition THEN "no_side"
    ELSE IF position[1].quantity > 0 THEN "close_long"
    ELSE IF position[1].quantity < 0 THEN "close_short"
    ELSE "no_side"

\* Sum over the legs with the given action of
\* (fill price - average price) * quantity * lot size.
RECURSIVE LegSum(_, _, _, _)
LegSum(ensure_orders, action, average_price, lot_size) ==
    IF ensure_orders = <<>> THEN 0
    ELSE (IF Head(ensure_orders).action = action
          THEN (Head(ensure_orders).state[1].price - average_price)
                 * Head(ensure_orders).quantity * lot_size
          ELSE 0)
         + LegSum(Tail(ensure_orders), action, average_price, lot_size)

\* The order list has a closing leg of the side of the position.
HasClosingLeg(position, ensure_orders) ==
    \E i \in 1..Len(ensure_orders) :
        ensure_orders[i].action = ClosingAction(position)

\* C19: the realized profit is absent (not 0) when there was no prior
\* position or the order list holds no closing leg of its side; otherwise
\* it is the sum over the close_long legs of (fill - average) * qty *
\* lot_size for a long, and minus that sum over the close_short legs for a
\* short.
C19_ProfitFromClosingLegs ==
    (calc.op = "process_signal" /\ calc.pc = "profit") =>
        IF ~HasClosingLeg(calc.init_position, calc.ensure_orders)
        THEN calc.profit = <<>>
        ELSE calc.profit =
               <<(IF calc.init_position[1].quantity > 0 THEN 1 ELSE -1)
                 * LegSum(calc.ensure_orders,
                          ClosingAction(calc.init_position),
                          calc.init_position[1].average_price,
                          calc.lot_size)>>

\* ---- C20
\* The signal carries an entry price / an entry time.
CarriesEntryPrice == calc.entry_price # None /\ calc.entry_price # 0
CarriesEntryTime == calc.entry_time # None

\* Positions in the order list of the market legs.
MarketLegIndexes ==
    {i \in 1..Len(calc.ensure_orders) :
        calc.ensure_orders[i].type \in {"buy", "sell"}}

\* C20: slippage is computed only when the signal carries entry_price or
\* entry_time; it has one entry per market leg (buy or sell), keyed by
\* order_id, and none for a stop order; the price slippage is fill -
\* entry for open_long and close_short legs and entry - fill for
\* open_short and close_long legs, so it is positive exactly when a buy
\* filled above the entry price or a sell filled below it.
C20_SlippageOfMarketLegs ==
    (calc.op = "process_signal" /\ calc.pc \in {"slippage", "profit"}) =>
        /\ (~CarriesEntryPrice /\ ~CarriesEntryTime) =>
               DOMAIN calc.slippage = {}
        /\ (CarriesEntryPrice \/ CarriesEntryTime) =>
               DOMAIN calc.slippage =
                   {calc.ensure_orders[i].order_id : i \in MarketLegIndexes}
        /\ \A i \in 1..Len(calc.ensure_orders) :
               calc.ensure_orders[i].type \in {"stop_loss", "take_profit"} =>
                   calc.ensure_orders[i].order_id \notin DOMAIN calc.slippage
        /\ CarriesEntryPrice =>
               \A i \in MarketLegIndexes :
                   LET o == calc.ensure_orders[i]
                       s == calc.slippage[o.order_id].price
                       fill == o.state[1].price
                   IN /\ o.action \in {"open_long", "close_short"} =>
                             s = <<fill - calc.entry_price>>
                      /\ o.action \in {"open_short", "close_long"} =>
                             s = <<calc.entry_price - fill>>
                      /\ s[1] > 0 <=>
                             \/ o.type = "buy" /\ fill > calc.entry_price
                             \/ o.type = "sell" /\ fill < calc.entry_price

\* A long was reversed with a stop: the closing sell filled below the
\* entry price and has a positive slippage, the stop order has no entry.
C20_Witness ==
    /\ calc.op = "process_signal"
    /\ calc.pc = "slippage"
    /\ CarriesEntryPrice
    /\ \E i \in MarketLegIndexes :
          /\ calc.ensure_orders[i].action = "close_long"
          /\ calc.slippage[calc.ensure_orders[i].order_id].price[1] > 0
    /\ \E i \in MarketLegIndexes :
          calc.ensure_orders[i].action = "open_short"
    /\ \E i \in 1..Len(calc.ensure_orders) :
          calc.ensure_orders[i].type = "stop_loss"

\* ---- C21
\* Signal s was enqueued after stop_processing began.
AfterShutdown(s) == executor.shutdown /\ s > executor.accepted

\* C21: a signal enqueued after shutdown began is never put into waiting
\* and never reconciled; when stop_processing has returned no
\* reconciliation is in flight and no signal is left in waiting.
C21_ShutdownDrains ==
    /\ \A s \in Signals :
          AfterShutdown(s) =>
              /\ waiting[hist[s].key] # s
              /\ processing[hist[s].key] # s
              /\ hist[s].runs = 0
    /\ executor.joined =>
          /\ \A i \in Tasks : ~Processing(i)
          /\ \A k \in DOMAIN waiting : waiting[k] = None

\* ---- C22
\* The running or last ensure_position call flips a non-flat position to
\* the opposite side.
Flip ==
    /\ ens.pc # "idle"
    /\ \/ ens.init_pos_qty < 0 /\ ens.desired_position = "long"
       \/ ens.init_pos_qty > 0 /\ ens.desired_position = "short"

\* The adapter calls a flip makes up to the opening order, in order.
FlipCalls ==
    <<"get_current_stop_orders", "cancel_stop_orders", "place_market_order",
      "calculate_position_size", "place_market_order">>

\* An EnsureOrder that opens a position.
IsOpening(o) ==
    o.type \in {"buy", "sell"} /\ o.action \in {"open_long", "open_short"}

\* The opening order of the call has been placed.
Opened == \E i \in 1..Len(ens.orders) : IsOpening(ens.orders[i])

\* C22: in a flip the stop orders seen at entry are cancelled before the
\* closing market order, the closing leg of |q| lots is placed before the
\* size is computed and the opening leg placed, and no stop order seen at
\* entry is active when the opening order is placed or afterwards.
C22_FlipCancelsThenCloses ==
    Flip =>
        /\ \A i \in 1..Len(ens.calls) :
              i <= Len(FlipCalls) =>
                  \/ ens.calls[i] = FlipCalls[i]
                  \/ i = Len(FlipCalls) /\ ~Opened
        /\ Len(ens.calls) >= 3 =>
              /\ Len(ens.orders) >= 1
              /\ ens.orders[1].action =
                    (IF ens.init_pos_qty < 0 THEN "close_short" ELSE "close_long")
              /\ ens.orders[1].quantity = Abs(ens.init_pos_qty)
        /\ \A i \in 1..Len(ens.orders) : IsOpening(ens.orders[i]) => i = 2
        /\ (ens.pc = "open" \/ Opened) =>
              brokerStops \cap ens.init_stop_orders = {}

\* A short with stop orders was flipped to long and the opening order has
\* been placed.
C22_Witness ==
    /\ Flip
    /\ ens.init_pos_qty < 0
    /\ ens.init_stop_orders # {}
    /\ Opened
    /\ ens.pc = "wait"

\* ---- C23
\* The running or last ensure_position call found the position on the
\* desired side already (or flat with flat desired).
AlreadyThere ==
    /\ ens.pc # "idle"
    /\ \/ ens.init_pos_qty > 0 /\ ens.desired_position = "long"
       \/ ens.init_pos_qty < 0 /\ ens.desired_position = "short"
       \/ ens.init_pos_qty = 0 /\ ens.desired_position = "flat"

\* The adapter method was called by the running or last call.
Called(method) == \E i \in 1..Len(ens.calls) : ens.calls[i] = method

\* C23: when the position already has the desired sign, or is flat with
\* flat desired, ensure_position places no market order, does not call
\* calculate_position_size, waits for settlement with expected quantity q,
\* and the position at the broker stays q.
C23_SameSideNoTrade ==
    AlreadyThere =>
        /\ ~Called("place_market_order")
        /\ ~Called("calculate_position_size")
        /\ MarketLegs(ens.orders) = <<>>
        /\ ens.expected_pos_qty = ens.init_pos_qty
        /\ brokerQty = ens.init_pos_qty
        /\ Called("get_position_waiting_for_state") =>
              /\ ens.calls[2] = "get_position_waiting_for_state"
              /\ ens.pc # "failed" => ens.final_pos_qty = ens.init_pos_qty

\* A long asked to be long again: the call returned after refreshing the
\* stop-loss, without a trade.
C23_Witness ==
    /\ AlreadyThere
    /\ ens.init_pos_qty > 0
    /\ ens.pc = "returned"
    /\ Len(ens.orders) = 1
    /\ ens.orders[1].type = "stop_loss"

\* ---- C24
\* Position in the call log of the settlement wait (0: not reached).
WaitIndex ==
    IF Called("get_position_waiting_for_state")
    THEN CHOOSE i \in 1..Len(ens.calls) :
             ens.calls[i] = "get_position_waiting_for_state"
    ELSE 0

\* The call has read final_stop_orders (line 210).
FinalStopsRead ==
    /\ ens.pc # "idle"
    /\ WaitIndex > 0
    /\ Len(ens.calls) > WaitIndex
    /\ ens.calls[WaitIndex + 1] = "get_current_stop_orders"

\* The condition of line 214.
RefreshDue ==
    \/ ens.final_pos_qty # ens.init_pos_qty
    \/ should_update_stop_orders(AsList(ens.final_stop_orders),
                                 ens.stop_price, ens.take_price)

\* cancel_stop_orders(final_stop_orders) was called (line 217).
CancelledFinal ==
    \E i \in 1..Len(ens.calls) :
        i > WaitIndex /\ ens.calls[i] = "cancel_stop_orders"

\* The stop orders among the orders of the call.
IsStop(o) == o.type \in {"stop_loss", "take_profit"}
StopLegs(orders) == SelectSeq(orders, IsStop)

\* The call found the quantity unchanged and non-zero, and exactly one
\* stop order at the broker: a stop-loss whose price is not the requested
\* stop price, which was given.
OneStaleStopLoss ==
    /\ ens.pc = "returned"
    /\ ens.final_pos_qty = ens.init_pos_qty
    /\ ens.final_pos_qty # 0
    /\ Truthy(ens.stop_price)
    /\ Cardinality(ens.final_stop_orders) = 1
    /\ \A o \in ens.final_stop_orders :
          o.order_type = "stop_loss" /\ o.stop_price # ens.stop_price

\* C24: ensure_position cancels the active stops and installs the
\* requested ones if and only if the settled final quantity differs from
\* the initial one or _should_update_stop_orders(final_stops, stop_price,
\* take_price) is true; otherwise it cancels nothing and places no stop
\* order. With the quantity unchanged and one stop-loss at another price
\* than the requested one, the old stop is cancelled and exactly one new
\* stop-loss is placed, with no market order.
C24_RefreshIffDue ==
    /\ (FinalStopsRead /\ ~RefreshDue) =>
          /\ ~CancelledFinal
          /\ StopLegs(ens.orders) = <<>>
          /\ ens.pc = "returned"
    /\ (FinalStopsRead /\ ens.pc = "returned") =>
          /\ CancelledFinal <=> RefreshDue
          /\ StopLegs(ens.orders) # <<>> => RefreshDue
          /\ RefreshDue => brokerStops \cap ens.final_stop_orders = {}
    /\ OneStaleStopLoss =>
          /\ CancelledFinal
          /\ brokerStops \cap ens.final_stop_orders = {}
          /\ Len(SelectSeq(ens.orders, LAMBDA o : o.type = "stop_loss")) = 1
          /\ MarketLegs(ens.orders) = <<>>
          /\ Cardinality({o \in brokerStops : o.order_type = "stop_loss"}) = 1

\* A long with one stop-loss was asked to stay long with another stop
\* price and no take price: the call returned one new stop-loss only.
C24_Witness ==
    /\ OneStaleStopLoss
    /\ ens.init_pos_qty > 0
    /\ ens.take_price = None
    /\ Len(ens.orders) = 1
    /\ ens.orders[1].type = "stop_loss"
    /\ Cardinality(brokerStops) = 1

\* ---- C25
\* The orders of one kind in a list of stop orders.
OfKind(stop_orders, order_type) ==
    SelectSeq(stop_orders, LAMBDA o : o.order_type = order_type)

\* The trigger price of the only order of a kind (None: no such order).
SinglePrice(stop_orders, order_type) ==
    IF OfKind(stop_orders, order_type) = <<>> THEN None
    ELSE OfKind(stop_orders, order_type)[1].stop_price

\* C25: _should_update_stop_orders returns true exactly when the list
\* holds more than one stop_loss, or more than one take_profit, or the
\* price of the single stop-loss differs from the requested stop_price, or
\* the price of the single take-profit differs from the requested
\* take_price, an absent order or request being a value of its own.
C25_ShouldUpdateExactly ==
    (calc.op = "_should_update_stop_orders" /\ calc.pc = "returned") =>
        (calc.result <=>
            \/ Len(OfKind(calc.stop_orders, "stop_loss")) > 1
            \/ Len(OfKind(calc.stop_orders, "take_profit")) > 1
            \/ SinglePrice(calc.stop_orders, "stop_loss") # calc.stop_price
            \/ SinglePrice(calc.stop_orders, "take_profit") # calc.take_price)

\* Two stop-loss orders at the requested price and one take-profit at the
\* requested price: the answer is true.
C25_Witness ==
    /\ calc.op = "_should_update_stop_orders"
    /\ calc.pc = "returned"
    /\ Len(OfKind(calc.stop_orders, "stop_loss")) = 2
    /\ \A i \in 1..Len(calc.stop_orders) :
          calc.stop_orders[i].stop_price =
              (IF calc.stop_orders[i].order_type = "stop_loss"
               THEN calc.stop_price ELSE calc.take_price)
    /\ Len(OfKind(calc.stop_orders, "take_profit")) = 1
    /\ calc.result

\* ---- C26
\* The stop orders of one type among the orders of the call.
StopLegsOf(type) == SelectSeq(ens.orders, LAMBDA o : o.type = type)

NoLotsResults ==
    {calculate_position_size(a) :
        a \in {x \in SizeInputs :
                  quantity_by_balance(x) = 0 \/ quantity_by_leverage(x) = 0}}

\* The running or last call sized the position and got no lots.
NoLots ==
    /\ ens.pc # "idle"
    /\ ens.sized # <<>>
    /\ ens.sized[1] \in NoLotsResults

\* C27: when sizing yields no lots, ensure_position places no opening
\* order, has placed the closing leg if a position existed, waits for and
\* ends with a flat position, and installs no stop orders.
C27_NoLotsEndsFlat ==
    NoLots =>
        /\ ~Opened
        /\ ~Called("place_stop_loss_order")
        /\ ~Called("place_take_profit_order")
        /\ StopLegs(ens.orders) = <<>>
        /\ ens.init_pos_qty # 0 =>
              /\ Len(ens.orders) >= 1
              /\ ens.orders[1].quantity = Abs(ens.init_pos_qty)
              /\ ens.orders[1].action =
                    (IF ens.init_pos_qty < 0 THEN "close_short" ELSE "close_long")
        /\ ens.expected_pos_qty = 0
        /\ brokerQty = 0
        /\ ens.pc = "wait" => brokerQty = ens.expected_pos_qty
        /\ ens.pc = "returned" => ens.final_pos_qty = 0

\* ---- C28
\* An adapter call of the running or last ensure_position call failed.
AdapterFailed == ens.pc # "idle" /\ ens.error # "none"

\* C28: once an adapter call made by ensure_position has failed, the call
\* has ended with that error, and it makes no further adapter call:
\* nothing more is placed, cancelled, read or waited for, and the failed
\* call is not made again.
C28_AdapterErrorAborts ==
    /\ [](AdapterFailed => ens.pc = "failed")
    /\ [][AdapterFailed =>
             (nrun' = nrun => UNCHANGED <<brokerQty, brokerStops, nextId, ens>>)]_vars

\* The opening order failed after the stops were cancelled and the closing
\* order placed.
C28_Witness ==
    /\ AdapterFailed
    /\ ens.pc = "failed"
    /\ ens.error = "place_market_order"
    /\ Called("cancel_stop_orders")
    /\ Len(ens.orders) = 1
    /\ ens.sized # <<>>

\* ---- C29
\* The broker did not know the instrument of the signal.
InstrumentNotFound ==
    calc.op = "process_signal" /\ calc.instrument_type = "none"

\* C29: when the instrument cannot be resolved, process_signal has failed
\* with INSTRUMENT_NOT_FOUND without reading the position, and no
\* ensure_position call, market order, stop order or cancel was made: the
\* account is as it was.
C29_UnknownInstrumentNoOrders ==
    InstrumentNotFound =>
        /\ calc.pc = "raised"
        /\ calc.error = "INSTRUMENT_NOT_FOUND"
        /\ calc.svc_calls = <<"get_instrument_type">>
        /\ nrun = 0
        /\ ens.pc = "idle"
        /\ brokerQty = calc.broker.quantity
        /\ brokerStops = calc.broker.stop_orders

\* An account with a position and stop orders got a signal for an
\* instrument the broker does not know.
C29_Witness ==
    /\ InstrumentNotFound
    /\ calc.pc = "raised"
    /\ brokerQty # 0
    /\ brokerStops # {}


\* ---------------------------------------------------------------------
\* The dispatcher mutex. The dispatcher steps above take each
\* "with self._lock:" block as one step; here the mutex is a value of its
\* own, calc.lock, so that who holds it while what runs can be observed.
\* calc.lock is <<>> when the mutex is free, <<"caller", c>> when the
\* HTTP thread c holds it inside enqueue_signal and <<"worker", i>> when
\* the pool thread of work item i holds it. calc.callers[c] is the
\* position of HTTP thread c in enqueue_signal.
\* ---------------------------------------------------------------------
MaxCallers == 3

Callers == 1..MaxCallers

LockFree == <<>>

InitLock ==
    calc = [op |-> "enqueue_signal", lock |-> LockFree,
            callers |-> [c \in Callers |-> [pc |-> "idle", key |-> None, signal_id |-> None]]]

\* The route handler calls enqueue_signal (routes.py line 38); lines 65-66
\* run before the mutex is asked for. HTTP threads are numbered in the
\* order of their calls.
EnqueueCall(c, k) ==
    /\ calc.callers[c].pc = "idle"
    /\ \A b \in Callers : b < c => calc.callers[b].pc # "idle"
    /\ calc' = [calc EXCEPT !.callers[c].pc = "call", !.callers[c].key = k,
                            !.callers[c].signal_id = None]
    /\ UNCHANGED <<qvars, evars>>

\* "with self._lock:" of line 68 is entered: threading.Lock.acquire
\* returns only when the mutex is free.
EnqueueAcquire(c) ==
    /\ calc.callers[c].pc = "call"
    /\ calc.lock = LockFree
    /\ calc' = [calc EXCEPT !.lock = <<"caller", c>>, !.callers[c].pc = "locked"]
    /\ UNCHANGED <<qvars, evars>>

\* Lines 69-88 under the mutex, which is released on leaving the block.
EnqueueLocked(c) ==
    LET k == calc.callers[c].key
        s == Len(hist) + 1 IN
    /\ calc.callers[c].pc = "locked"
    /\ calc.lock = <<"caller", c>>
    /\ waiting' = [waiting EXCEPT ![k] = s]
    /\ hist' = Append(MarkReplaced(hist, waiting[k]), NewSignal(k))
    /\ calc' = [calc EXCEPT
         !.lock = LockFree,
         !.callers[c].signal_id = s,
         !.callers[c].pc = IF processing[k] = None THEN "submit" ELSE "return"]
    /\ UNCHANGED <<processing, tasks, executor>>
    /\ UNCHANGED evars

\* Lines 91-92: the executor's submit, which queues the work item and
\* returns (RuntimeError once the executor is shut down).
EnqueueSubmit(c) ==
    /\ calc.callers[c].pc = "submit"
    /\ IF executor.shutdown
       THEN /\ calc' = [calc EXCEPT !.callers[c].pc = "raised"]
            /\ UNCHANGED tasks
       ELSE /\ calc' = [calc EXCEPT !.callers[c].pc = "return"]
            /\ tasks' = Append(tasks, [key |-> calc.callers[c].key, pc |-> "queued", sig |-> None])
    /\ UNCHANGED <<waiting, processing, hist, executor>>
    /\ UNCHANGED evars

\* Line 94: the signal id is returned to the route handler.
EnqueueReturn(c) ==
    /\ calc.callers[c].pc = "return"
    /\ calc' = [calc EXCEPT !.callers[c].pc = "returned"]
    /\ UNCHANGED <<qvars, evars>>

\* The worker asks for the mutex: line 98 (a pool thread that picked the
\* work item up, or the tail call of line 118) or line 107.
WorkerAcquire(i) ==
    /\ \/ tasks[i].pc = "queued" /\ CanStart(i)
       \/ tasks[i].pc \in {"promote", "release"}
    /\ calc.lock = LockFree
    /\ calc' = [calc EXCEPT !.lock = <<"worker", i>>]
    /\ UNCHANGED <<qvars, evars>>

\* A first block that keeps the mutex while process_signal runs.
WorkerFirstBlock_hold(i) ==
    /\ tasks[i].pc \in {"queued", "promote"}
    /\ calc.lock = <<"worker", i>>
    /\ PromoteLocked(i)
    /\ UNCHANGED <<executor, calc>>
    /\ UNCHANGED evars

\* Lines 98-102 under the mutex; the block is left, and the mutex
\* released, before line 104 calls _process_queued_signal.
WorkerFirstBlock(i) ==
    /\ tasks[i].pc \in {"queued", "promote"}
    /\ calc.lock = <<"worker", i>>
    /\ PromoteLocked(i)
    /\ calc' = [calc EXCEPT !.lock = LockFree]
    /\ UNCHANGED executor
    /\ UNCHANGED evars

\* Lines 107-115 under the mutex, released on leaving the block.
WorkerSecondBlock(i) ==
    /\ tasks[i].pc = "release"
    /\ calc.lock = <<"worker", i>>
    /\ ReleaseLocked(i)
    /\ calc' = [calc EXCEPT !.lock = LockFree]
    /\ UNCHANGED <<waiting, hist, executor>>
    /\ UNCHANGED evars

LockOutcomes == {"no_orders"}

InitLocking == QInit(Keys) /\ EIdle /\ InitLock

\* The steps that need no reconciliation to end: every step of an
\* enqueue_signal call and every locked block of a worker.
NextDispatch ==
    \/ \E c \in Callers, k \in Keys : EnqueueCall(c, k)
    \/ \E c \in Callers : EnqueueAcquire(c)
    \/ \E c \in Callers : EnqueueLocked(c)
    \/ \E c \in Callers : EnqueueSubmit(c)
    \/ \E c \in Callers : EnqueueReturn(c)
    \/ \E i \in Tasks : WorkerAcquire(i)
    \/ \E i \in Tasks : WorkerFirstBlock(i)
    \/ \E i \in Tasks : WorkerSecondBlock(i)

NextLocking ==
    \/ NextDispatch
    \/ \E i \in Tasks, o \in LockOutcomes : ProcessSignal(i, o)

\* Threads that can take a step take it; a reconciliation (process_signal,
\* broker I/O) may last forever.
SpecLocking == InitLocking /\ [][NextLocking]_vars /\ WF_vars(NextDispatch)

\* ---------------------------------------------------------------------
\* C30: the dispatcher mutex is never held while process_signal or the
\* executor's submit runs: a worker inside process_signal does not hold
\* it, an enqueue_signal call at its submit does not hold it, and whoever
\* holds it is inside one of the locked blocks; therefore every
\* enqueue_signal call that was started completes and returns its signal
\* id, also when reconciliations are in flight and never end.
\* ---------------------------------------------------------------------
HeldBy(who) == calc.lock = who

LockOnlyInBlocks ==
    /\ \A i \in Tasks : Processing(i) => ~HeldBy(<<"worker", i>>)
    /\ \A c \in Callers : calc.callers[c].pc \in {"submit", "return", "returned"} => ~HeldBy(<<"caller", c>>)
    /\ \A c \in Callers : HeldBy(<<"caller", c>>) => calc.callers[c].pc = "locked"
    /\ \A i \in Tasks : HeldBy(<<"worker", i>>) => tasks[i].pc \in {"queued", "promote", "release"}

EnqueueReturns(c) ==
    (calc.callers[c].pc = "call") ~> (calc.callers[c].pc = "returned" /\ calc.callers[c].signal_id # None)

C30_LockNotHeldDuringIO ==
    /\ []LockOnlyInBlocks
    /\ \A c \in Callers : EnqueueReturns(c)

\* An enqueue_signal call that went from its call to its return while a
\* reconciliation was in flight the whole time.
C30_Witness ==
    \E c \in Callers :
        /\ calc.callers[c].pc = "returned"
        /\ calc.callers[c].signal_id # None
        /\ \E i \in Tasks :
            /\ Processing(i)
            /\ tasks[i].sig < calc.callers[c].signal_id
            /\ hist[tasks[i].sig].ends = 0
            /\ tasks[i].key = calc.callers[c].key

\* ---------------------------------------------------------------------
\* C31: at any instant at most max_workers reconciliations are in flight
\* across all keys (no more than max_workers work items hold a pool
\* thread); while max_workers work items hold a thread a further promote
\* task stays in the pool queue, and the head of the queue starts once
\* fewer do.
\* ---------------------------------------------------------------------
InFlightTasks == {i \in Tasks : Processing(i)}

C31_PoolCapsInFlight ==
    /\ Cardinality(InFlightTasks) <= max_workers
    /\ Cardinality(Running) <= max_workers
    /\ \A i \in Queued :
          IF Cardinality(Running) >= max_workers
          THEN ~ENABLED Promote(i)
          ELSE QueuedUpTo(i) = {i} => ENABLED Promote(i)

\* max_workers reconciliations are in flight and one more task is queued.
C31_Witness ==
    /\ Cardinality(InFlightTasks) = max_workers
    /\ Queued # {}

\* ---------------------------------------------------------------------
\* C32: in every reachable state and for every key, if waiting[key] is set
\* then processing[key] is set and the worker that put it there has still
\* to run its second locked block (where it checks waiting[key]), or a
\* _process_waiting_signal_key(key) task is submitted (or continued by a
\* tail call) and has not yet taken the waiting signal.
\* ---------------------------------------------------------------------
OwnerBusy(k) ==
    /\ processing[k] # None
    /\ \E i \in Tasks :
          /\ tasks[i].key = k /\ tasks[i].sig = processing[k]
          /\ tasks[i].pc \in {"process", "release"}

PromoteScheduled(k) ==
    \E i \in Tasks : tasks[i].key = k /\ tasks[i].pc \in {"queued", "promote"}

\* An enqueue_signal call for the key has left its locked block and has
\* not yet made its submit (lines 89-92).
SubmitPending(k) ==
    \E c \in Callers : calc.callers[c].key = k /\ calc.callers[c].pc = "submit"

\* C32, as claimed.
C32_WaitingIsServed ==
    \A k \in DOMAIN waiting :
        waiting[k] # None => (OwnerBusy(k) \/ PromoteScheduled(k))

\* C32, amended: ... or the enqueue_signal call that found the key idle is
\* about to submit the task.
C32_WaitingIsServedOrSubmitPending ==
    \A k \in DOMAIN waiting :
        waiting[k] # None =>
            (OwnerBusy(k) \/ PromoteScheduled(k) \/ SubmitPending(k))

\* A signal waits behind a reconciliation of its key: the worker that owns
\* processing[key] is the only one that will promote it.
C32_Witness ==
    \E k \in DOMAIN waiting :
        /\ waiting[k] # None
        /\ OwnerBusy(k)
        /\ ~PromoteScheduled(k)
        /\ ~SubmitPending(k)

\* ---------------------------------------------------------------------
\* The Finam adapter's stop orders (src/app/brokers/finam.py). calc.orders
\* is the account's order book at the broker, in placing order (the order
\* id is the index), calc.asked what place_stop_loss_order /
\* place_take_profit_order were called with, calc.result the last answer
\* of get_current_stop_orders.
\* ---------------------------------------------------------------------
MaxFinamOrders == 2

Directions == {"buy", "sell"}

\* side=SIDE_SELL if direction == "sell" else SIDE_BUY
FinamSide(direction) == IF direction = "sell" THEN "SIDE_SELL" ELSE "SIDE_BUY"

\* stop_condition of place_stop_loss_order (line 188)
StopLossCondition(direction) ==
    IF direction = "sell" THEN "STOP_CONDITION_LAST_DOWN" ELSE "STOP_CONDITION_LAST_UP"

\* stop_condition of place_take_profit_order (line 204)
TakeProfitCondition(direction) ==
    IF direction = "sell" THEN "STOP_CONDITION_LAST_UP" ELSE "STOP_CONDITION_LAST_DOWN"

\* The Order message of a PlaceOrder request, as the broker keeps it.
FinamOrder(direction, quantity, price, stop_condition) ==
    [side |-> FinamSide(direction), type |-> "ORDER_TYPE_STOP",
     quantity |-> quantity, stop_price |-> price,
     stop_condition |-> stop_condition, status |-> "ORDER_STATUS_WATCHING"]

InitFinam ==
    calc = [op |-> "finam", orders |-> <<>>, asked |-> <<>>, result |-> {},
            pc |-> "placing"]

\* place_stop_loss_order (lines 178-192)
FinamPlaceStopLoss(direction, quantity, stop_price) ==
    /\ calc.op = "finam"
    /\ Len(calc.orders) < MaxFinamOrders
    /\ calc' = [calc EXCEPT
         !.orders = Append(@, FinamOrder(direction, quantity, stop_price, StopLossCondition(direction))),
         !.asked = Append(@, [order_type |-> "stop_loss", direction |-> direction]),
         !.result = {},
         !.pc = "placing"]
    /\ UNCHANGED <<qvars, evars>>

\* place_take_profit_order (lines 194-208)
FinamPlaceTakeProfit(direction, quantity, take_price) ==
    /\ calc.op = "finam"
    /\ Len(calc.orders) < MaxFinamOrders
    /\ calc' = [calc EXCEPT
         !.orders = Append(@, FinamOrder(direction, quantity, take_price, TakeProfitCondition(direction))),
         !.asked = Append(@, [order_type |-> "take_profit", direction |-> direction]),
         !.result = {},
         !.pc = "placing"]
    /\ UNCHANGED <<qvars, evars>>

\* The broker executes or cancels a watching order.
FinamOrderEnds(n) ==
    /\ calc.op = "finam"
    /\ n \in 1..Len(calc.orders)
    /\ calc.orders[n].status = "ORDER_STATUS_WATCHING"
    /\ calc' = [calc EXCEPT !.orders[n].status = "ORDER_STATUS_EXECUTED",
                            !.result = {}, !.pc = "placing"]
    /\ UNCHANGED <<qvars, evars>>

\* Mutant: the kind is read from the stop condition alone.
FinamOrderType_sideless(order) ==
    IF order.stop_condition = "STOP_CONDITION_LAST_DOWN" THEN "stop_loss" ELSE "take_profit"

\* get_current_stop_orders, lines 233-237: `and` binds tighter than `or`.
FinamOrderType(order) ==
    IF \/ order.stop_condition = "STOP_CONDITION_LAST_DOWN" /\ order.side = "SIDE_SELL"
       \/ order.stop_condition = "STOP_CONDITION_LAST_UP" /\ order.side = "SIDE_BUY"
    THEN "stop_loss"
    ELSE "take_profit"

\* get_current_stop_orders, lines 230-246, for one order of the answer.
FinamStopOrder(n) ==
    LET order == calc.orders[n] IN
    [order_id |-> n, order_type |-> FinamOrderType(order),
     direction |-> IF order.side = "SIDE_SELL" THEN "sell" ELSE "buy",
     quantity |-> order.quantity, stop_price |-> order.stop_price]

\* get_current_stop_orders (lines 223-248)
FinamGetCurrentStopOrders ==
    /\ calc.op = "finam"
    /\ calc.pc = "placing"
    /\ calc' = [calc EXCEPT
         !.result = {FinamStopOrder(n) : n \in {m \in 1..Len(calc.orders) :
                        /\ calc.orders[m].status = "ORDER_STATUS_WATCHING"
                        /\ calc.orders[m].type \in {"ORDER_TYPE_STOP", "ORDER_TYPE_STOP_LIMIT"}}},
         !.pc = "listed"]
    /\ UNCHANGED <<qvars, evars>>

InitFinamOrders == QInit(Keys) /\ EIdle /\ InitFinam

NextFinam ==
    \/ \E d \in Directions, q \in 1..MaxQty, p \in 1..MaxPrice : FinamPlaceStopLoss(d, q, p)
    \/ \E d \in Directions, q \in 1..MaxQty, p \in 1..MaxPrice : FinamPlaceTakeProfit(d, q, p)
    \/ \E n \in 1..MaxFinamOrders : FinamOrderEnds(n)
    \/ FinamGetCurrentStopOrders

SpecFinam == InitFinamOrders /\ [][NextFinam]_vars

\* ---------------------------------------------------------------------
\* C33: in the Finam adapter a SELL stop-loss is placed with the condition
\* "last price down to the stop price" and a BUY stop-loss with "last price
\* up", take-profits with the opposite condition; and every order placed by
\* place_stop_loss_order or place_take_profit_order that is still watching
\* is reported by get_current_stop_orders with the kind and the direction
\* it was placed with, for each of the four (kind, direction) combinations.
\* ---------------------------------------------------------------------
Watching(n) == calc.orders[n].status = "ORDER_STATUS_WATCHING"

C33_FinamKindRoundTrip ==
    /\ \A n \in 1..Len(calc.orders) :
          LET o == calc.orders[n]
              down == o.stop_condition = "STOP_CONDITION_LAST_DOWN"
              up == o.stop_condition = "STOP_CONDITION_LAST_UP" IN
          /\ o.side = (IF calc.asked[n].direction = "sell" THEN "SIDE_SELL" ELSE "SIDE_BUY")
          /\ (calc.asked[n] = [order_type |-> "stop_loss", direction |-> "sell"] => down)
          /\ (calc.asked[n] = [order_type |-> "stop_loss", direction |-> "buy"] => up)
          /\ (calc.asked[n] = [order_type |-> "take_profit", direction |-> "sell"] => up)
          /\ (calc.asked[n] = [order_type |-> "take_profit", direction |-> "buy"] => down)
    /\ calc.pc = "listed" =>
          /\ \A n \in 1..Len(calc.orders) :
                Watching(n) =>
                    \E r \in calc.result :
                        /\ r.order_id = n
                        /\ r.order_type = calc.asked[n].order_type
                        /\ r.direction = calc.asked[n].direction
          /\ \A r \in calc.result : Watching(r.order_id)
          /\ Cardinality(calc.result) = Cardinality({n \in 1..Len(calc.orders) : Watching(n)})

\* A BUY stop-loss and a BUY take-profit were placed and listed.
C33_Witness ==
    /\ calc.pc = "listed"
    /\ \E r1, r2 \in calc.result :
          /\ r1.direction = "buy" /\ r1.order_type = "stop_loss"
          /\ r2.direction = "buy" /\ r2.order_type = "take_profit"

\* ---------------------------------------------------------------------
\* C34: no enqueued signal is reconciled more than once: each signal is
\* passed to process_signal at most one time (and at most one task ever
\* holds it), whatever the interleaving of enqueues, promote tasks and
\* tail-call continuations.
\* ---------------------------------------------------------------------
C34_AtMostOneRun ==
    /\ \A s \in Signals : hist[s].runs <= 1 /\ hist[s].ends <= hist[s].runs
    /\ \A i, j \in Tasks :
          (i # j /\ tasks[i].sig # None /\ tasks[i].pc # "queued") =>
              \/ tasks[i].sig # tasks[j].sig
              \/ tasks[j].pc \in {"done", "crashed_promote", "crashed_release", "promote"}

\* Two promote tasks of one key have both taken a signal and a worker has
\* gone through a tail call: three signals of the key were each run once.
C34_Witness ==
    \E s1, s2, s3 \in Signals :
        /\ s1 < s2 /\ s2 < s3 /\ SameKey(s1, s2) /\ SameKey(s2, s3)
        /\ hist[s1].runs = 1 /\ hist[s2].runs = 1 /\ hist[s3].runs = 1
        /\ \E i, j \in Tasks : i # j /\ tasks[i].sig = s1 /\ tasks[j].sig = s2

\* ---------------------------------------------------------------------
\* The dispatcher under fair scheduling: a pool thread that can take its
\* next step takes it, and every process_signal call returns. Requests may
\* stop arriving at any moment.
\* ---------------------------------------------------------------------
NextWorkers ==
    \/ \E i \in Tasks : Promote(i)
    \/ \E i \in Tasks : \E o \in ShutdownOutcomes : ProcessSignal(i, o)
    \/ \E i \in Tasks : Release(i)

NextQuiescing ==
    \/ \E k \in Keys : Len(hist) < MaxSignals /\ enqueue_signal(k)
    \/ NextWorkers

SpecQuiescing == Init /\ [][NextQuiescing]_vars /\ WF_vars(NextWorkers)

\* ---------------------------------------------------------------------
\* C35: once enqueues have stopped and every process_signal call returns,
\* under fair scheduling of the workers eventually, and from then on, for
\* every key both processing[key] and waiting[key] are absent; and no
\* worker task ends with a missing-key error that skips the promotion of
\* a waiting signal.
\* ---------------------------------------------------------------------
AllIdle == \A k \in DOMAIN waiting : waiting[k] = None /\ processing[k] = None

\* A second locked block ends with KeyError while a signal waits for the key.
SkipsWaiting ==
    \E i \in Tasks :
        /\ tasks[i].pc = "release" /\ tasks'[i].pc = "crashed_release"
        /\ waiting[tasks[i].key] # None

C35_Quiescence == <>[]AllIdle /\ [][~SkipsWaiting]_vars

\* The part of C35 that holds: both maps end up empty and stay so.
C35_EventuallyIdle == <>[]AllIdle

\* ---------------------------------------------------------------------
\* Settlement seen from the polls. A market order fills lot by lot, so
\* between placing the call's market orders and their settlement the
\* account passes through every quantity from init_pos_qty to the settled
\* one (brokerQty). get_position_waiting_for_state (tinvest.py:119-134)
\* returns the first position it reads that has the expected quantity, also
\* one read on the way.
\* ---------------------------------------------------------------------
OnTheWay(q) ==
    /\ q # brokerQty
    /\ \/ ens.init_pos_qty <= q /\ q < brokerQty
       \/ brokerQty < q /\ q <= ens.init_pos_qty

WaitDuringFill ==
    /\ ens.pc = "wait"
    /\ ens.orders # <<>>
    /\ OnTheWay(ens.expected_pos_qty)
    /\ ens' = [ens EXCEPT
         !.final_pos_qty = ens.expected_pos_qty,
         !.calls = Append(@, "get_position_waiting_for_state"),
         !.pc = "get_final_stops"]
    /\ UNCHANGED <<brokerQty, brokerStops, nextId, nrun>>
    /\ UNCHANGED <<qvars, cvars>>

NextSettling ==
    \/ NextEnsure
    \/ WaitDuringFill

SpecSettling == InitEnsure /\ [][NextSettling]_vars

\* ---------------------------------------------------------------------
\* C36: whenever ensure_position returns successfully, the sign of the
\* final position agrees with the desired position: quantity >= 0 for
\* desired long, <= 0 for desired short, 0 (or absent) for desired flat,
\* for every initial position and every value returned by sizing.
\* ---------------------------------------------------------------------
SignAgrees(desired_position, q) ==
    CASE desired_position = "long" -> q >= 0
      [] desired_position = "short" -> q <= 0
      [] OTHER -> q = 0

C36_FinalSignAgrees ==
    ens.pc = "returned" => SignAgrees(ens.desired_position, ens.final_pos_qty)

\* The same, for the calls in which sizing did not answer below zero.
C36_SignAgreesUnlessNegativeSize ==
    (ens.pc = "returned" /\ (ens.sized = <<>> \/ ens.sized[1] >= 0)) =>
        SignAgrees(ens.desired_position, ens.final_pos_qty)

\* ---------------------------------------------------------------------
\* C37: every reconciled signal produces at most one notification: one
\* success report or one error report, never both and never two of one
\* kind; a signal that was not reconciled produces none.
\* ---------------------------------------------------------------------
C37_AtMostOneNotification ==
    \A s \in Signals :
        /\ hist[s].ok + hist[s].err <= 1
        /\ hist[s].ok + hist[s].err <= hist[s].ends

\* A reconciliation issued orders and then raised while formatting its
\* report; an earlier signal of the key got its success report.
C37_Witness ==
    \E s1, s2 \in Signals :
        /\ s1 < s2 /\ SameKey(s1, s2)
        /\ hist[s1].ok = 1 /\ hist[s1].err = 0
        /\ hist[s2].issued = 1 /\ hist[s2].raised = 1 /\ hist[s2].err = 1

\* ---------------------------------------------------------------------
\* C38: the order list of ensure_position always has the shape
\* [closing market leg]? [opening market leg]? [stop_loss]? [take_profit]?:
\* at most one order of each of the four kinds, the closing leg before the
\* opening leg, every market leg before every stop order; with desired
\* flat it holds no opening leg and no stop order.
\* ---------------------------------------------------------------------
OrderRank(o) ==
    IF o.type \in {"buy", "sell"}
    THEN (IF o.action \in {"close_long", "close_short"} THEN 1
          ELSE IF o.action \in {"open_long", "open_short"} THEN 2 ELSE 0)
    ELSE IF o.type = "stop_loss" THEN 3
    ELSE IF o.type = "take_profit" THEN 4 ELSE 0

C38_OrderListShape ==
    ens.pc # "idle" =>
        /\ \A i \in 1..Len(ens.orders) : OrderRank(ens.orders[i]) \in 1..4
        /\ \A i, j \in 1..Len(ens.orders) :
              i < j => OrderRank(ens.orders[i]) < OrderRank(ens.orders[j])
        /\ ens.desired_position = "flat" =>
              \A i \in 1..Len(ens.orders) : OrderRank(ens.orders[i]) = 1

\* A flip with both protective prices returned all four kinds of order.
C38_Witness ==
    /\ ens.pc = "returned"
    /\ Len(ens.orders) = 4
    /\ \A i \in 1..4 : OrderRank(ens.orders[i]) = i

\* ---------------------------------------------------------------------
\* C39: whenever a _process_waiting_signal_key(key) task starts, submitted
\* by enqueue_signal or continued by a finishing worker, waiting[key] is
\* present: taking it never fails with a missing-key error.
\* ---------------------------------------------------------------------
C39_WaitingPresentAtStart ==
    /\ \A i \in Tasks : tasks[i].pc # "crashed_promote"
    /\ \A i \in Tasks :
          tasks[i].pc \in {"queued", "promote"} => waiting[tasks[i].key] # None
====
